---- MODULE Spec2Model ----
(***************************************************************************)
(* Star Wars Squadrons statistics: match ingestion into the stats database *)
(* (stats_reader/modules/match_processor.py, player_processor.py,          *)
(* database_utils.py) and the ELO ladder generators that replay it         *)
(* (stats_reader/elo_ladder.py, player_elo_ladder.py,                      *)
(* role_elo_calculator.py).                                                *)
(*                                                                         *)
(* Numbers.  The generators compute with Python floats.  Here a rating is  *)
(* an integer number of thousandths of a rating point and an expected or   *)
(* actual outcome an integer number of thousandths (500 is 0.5), so that   *)
(* rating + k_factor * (actual - expected) is exact integer arithmetic.    *)
(*                                                                         *)
(* Row order.  A SELECT without ORDER BY returns rows in the order of the  *)
(* scan SQLite uses: rowid order for players and player_stats, and the     *)
(* order of the UNIQUE(name) index, which covers "SELECT id, name",  for   *)
(* teams.  Rows that are equal under the ORDER BY terms of a query are     *)
(* returned in an order SQL leaves undefined: a query yields the set of    *)
(* the row orders that respect its ORDER BY terms.                         *)
(***************************************************************************)
EXTENDS Integers, Sequences, FiniteSets

VARIABLES teams, players, matches, player_stats, out, ref_teams, ref_players, ret,
          player_resolution_cache, ingestion, log, season

(* The stats database with the output of the generators, the reference     *)
(* database with the result of the last call of one of its methods, and    *)
(* an ingestion run: the resolution caches, the position of the run in its *)
(* file, and what the last call of process_match_data did; and the call of *)
(* process_season_folder of the score extractor.                           *)
stats_vars == <<teams, players, matches, player_stats, out>>
registry_vars == <<ref_teams, ref_players, ret>>
ingest_vars == <<player_resolution_cache, ingestion, log, season>>

vars ==
  <<teams, players, matches, player_stats, out, ref_teams, ref_players, ret,
    player_resolution_cache, ingestion, log, season>>

(***************************************************************************)
(* Bounds of the model.                                                    *)
(***************************************************************************)
MaxMatches == 2
MaxRoster == 1
NumPlayers == 2
MaxDate == 2
MaxRefPlayers == 2
MaxRefTeams == 1
MaxAliasText == 3
MaxImport == 1
MaxFile == 2
MaxRuns == 2
MaxIngested == 2
MaxWords == 4
NumFactionPlayers == 3
MaxFolder == 4
MaxBatchSize == 3

(***************************************************************************)
(* Program constants.                                                      *)
(***************************************************************************)
starting_elo == 1000
k_factor == 32

Milli == 1000

NoRole == "none"
valid_roles == {"Farmer", "Flex", "Support"}
MatchTypes == {"team", "pickup", "ranked"}
Factions == {"IMPERIAL", "REBEL"}

(* Inputs of the model: raw player names, the roles typed at the prompt,   *)
(* the team names typed at the prompt, the match types and the phrases a   *)
(* match_result text may contain.                                          *)
PlayerNames == 1..NumPlayers
RoleInputs == {NoRole, "Flex", "Support"}
TeamNameInputs == {"Alpha", "Beta"}
MatchTypeInputs == {"team", "pickup"}
MatchDates == 1..MaxDate
ResultTexts == {{"IMPERIAL"}, {"REBEL"}, {}}

PlayerData == [player : PlayerNames, role : RoleInputs]
Rosters == UNION {[1..n -> PlayerData] : n \in 0..MaxRoster}

(* BINARY collation of the team names the model uses. *)
NameRank(name) ==
  CASE name = "Alpha" -> 1
    [] name = "Beta" -> 2
    [] name = "Imp_pickup_team" -> 3
    [] name = "Imperial_ranked_team" -> 4
    [] name = "NR_pickup_team" -> 5
    [] name = "NR_ranked_team" -> 6

(***************************************************************************)
(* Helpers on sequences.                                                   *)
(***************************************************************************)
RECURSIVE SumSeq(_)
SumSeq(s) == IF s = <<>> THEN 0 ELSE Head(s) + SumSeq(Tail(s))

Count(S) == Cardinality(S)

(* The index of the first element of s that satisfies name = n, 0 if none. *)
IndexOfName(s, n) ==
  IF \E i \in DOMAIN s : s[i].name = n
    THEN CHOOSE i \in DOMAIN s : s[i].name = n /\ \A j \in 1..(i - 1) : s[j].name # n
    ELSE 0

(* ladder.sort(key=lambda x: x['elo_rating'], reverse=True): stable, and  *)
(* descending by elo_rating.                                               *)
SortDescStable(s) ==
  LET n == Len(s)
      pos(i) == 1 + Count({j \in 1..n :
                             \/ s[j].elo_rating > s[i].elo_rating
                             \/ s[j].elo_rating = s[i].elo_rating /\ j < i})
  IN [p \in 1..n |-> s[CHOOSE i \in 1..n : pos(i) = p]]

(* The sequences that list every element of S once and respect the order   *)
(* leq, a set of pairs: a query with ORDER BY yields one of them.          *)
OrderedBy(S, leq) ==
  {s \in [1..Count(S) -> S] :
     /\ \A i, j \in DOMAIN s : i # j => s[i] # s[j]
     /\ \A i, j \in DOMAIN s : i < j => <<s[i], s[j]>> \in leq}

(***************************************************************************)
(* Python arithmetic.                                                      *)
(***************************************************************************)
(* round(x) of a value given in thousandths: nearest integer, ties to even. *)
RoundMilli(x) ==
  LET q == x \div Milli
      r == x % Milli
  IN IF r < 500 THEN q
     ELSE IF r > 500 THEN q + 1
     ELSE IF q % 2 = 0 THEN q ELSE q + 1

(* round(won / played * 100, 1), in tenths of a percent. *)
WinRate(won, played) ==
  IF played > 0
    THEN LET x == won * 1000
             q == x \div played
             r2 == 2 * (x % played)
         IN IF r2 < played THEN q
            ELSE IF r2 > played THEN q + 1
            ELSE IF q % 2 = 0 THEN q ELSE q + 1
    ELSE 0

(* round(1000 / (1 + 10 ** (d / 400))) for d = 0, 1, ..., 200 rating points. *)
ExpectedTable ==
   << 500, 499, 497, 496, 494, 493, 491, 490, 488, 487, 486, 484, 483, 481, 480,
      478, 477, 476, 474, 473, 471, 470, 468, 467, 466, 464, 463, 461, 460, 458,
      457, 456, 454, 453, 451, 450, 448, 447, 446, 444, 443, 441, 440, 438, 437,
      436, 434, 433, 431, 430, 429, 427, 426, 424, 423, 422, 420, 419, 417, 416,
      415, 413, 412, 410, 409, 408, 406, 405, 403, 402, 401, 399, 398, 396, 395,
      394, 392, 391, 390, 388, 387, 385, 384, 383, 381, 380, 379, 377, 376, 375,
      373, 372, 371, 369, 368, 367, 365, 364, 363, 361, 360, 359, 357, 356, 355,
      353, 352, 351, 349, 348, 347, 345, 344, 343, 342, 340, 339, 338, 336, 335,
      334, 333, 331, 330, 329, 327, 326, 325, 324, 322, 321, 320, 319, 317, 316,
      315, 314, 312, 311, 310, 309, 308, 306, 305, 304, 303, 301, 300, 299, 298,
      297, 295, 294, 293, 292, 291, 289, 288, 287, 286, 285, 284, 282, 281, 280,
      279, 278, 277, 275, 274, 273, 272, 271, 270, 269, 267, 266, 265, 264, 263,
      262, 261, 260, 259, 257, 256, 255, 254, 253, 252, 251, 250, 249, 248, 247,
      246, 244, 243, 242, 241, 240 >>

(* 1.0 / (1.0 + 10 ** ((rating_b - rating_a) / 400)), in thousandths; the   *)
(* rating difference is taken to the nearest point and to at most 200.     *)
calculate_expected_outcome(rating_a, rating_b) ==
  LET d == rating_b - rating_a
      a == IF d < 0 THEN 0 - d ELSE d
      pts == (a + 500) \div Milli
      idx == IF pts > 200 THEN 201 ELSE pts + 1
  IN IF d >= 0 THEN ExpectedTable[idx] ELSE Milli - ExpectedTable[idx]

(* A variant with the two outcomes exchanged. *)
calculate_new_rating_exchanged(rating, expected_outcome, actual_outcome, k) ==
  rating + k * (expected_outcome - actual_outcome)

(* rating + k_factor * (actual_outcome - expected_outcome) *)
calculate_new_rating(rating, expected_outcome, actual_outcome, k) ==
  rating + k * (actual_outcome - expected_outcome)

(***************************************************************************)
(* Ingestion: process_match_data and what it calls.                        *)
(***************************************************************************)
(* The winner a match_result text is normalized to; the text is given by   *)
(* the set of the phrases it contains, ignoring case.                      *)
NormalizeWinner(text) ==
  IF "IMPERIAL" \in text \/ "EMPIRE" \in text THEN "IMPERIAL"
  ELSE IF "REBEL" \in text \/ "NEW REPUBLIC" \in text \/ "REPUBLIC" \in text THEN "REBEL"
  ELSE "UNKNOWN"

(* get_or_create_team without a reference database: the teams table after *)
(* the call, and the id returned.                                          *)
TeamsAfter(ts, name) ==
  IF IndexOfName(ts, name) # 0 THEN ts
  ELSE Append(ts, [name |-> name, wins |-> 0, losses |-> 0])

TeamId(ts, name) == IndexOfName(ts, name)

(* get_or_create_player without a reference database: the player is found *)
(* by the hash of the raw name, or created.                                *)
PlayersAfter(ps, name) ==
  IF IndexOfName(ps, name) # 0 THEN ps ELSE Append(ps, [name |-> name])

PlayerId(ps, name) == IndexOfName(ps, name)

(* The players table after resolving a roster, player by player. *)
RECURSIVE PlayersAfterRoster(_, _)
PlayersAfterRoster(ps, roster) ==
  IF roster = <<>> THEN ps
  ELSE PlayersAfterRoster(PlayersAfter(ps, Head(roster).player), Tail(roster))

(* process_player_stats for every player of one faction: the rows inserted. *)
StatRows(ps, match_id, team_id, faction, roster, match_type) ==
  [i \in DOMAIN roster |->
     [match_id |-> match_id,
      player_id |-> PlayerId(ps, roster[i].player),
      team_id |-> IF match_type \in {"pickup", "ranked"} THEN 0 ELSE team_id,
      faction |-> faction,
      role |-> roster[i].role,
      is_subbing |-> 0]]

ImperialTeamName(match_type, typed) ==
  IF match_type = "team" THEN typed
  ELSE IF match_type = "pickup" THEN "Imp_pickup_team" ELSE "Imperial_ranked_team"

RebelTeamName(match_type, typed) ==
  IF match_type = "team" THEN typed
  ELSE IF match_type = "pickup" THEN "NR_pickup_team" ELSE "NR_ranked_team"

(* A variant that counts a match without a known winner as a rebel win. *)
WinLossAfter_else_rebel(ts, imperial_team_id, rebel_team_id, winner) ==
  IF winner = "IMPERIAL"
    THEN LET t1 == [ts EXCEPT ![imperial_team_id].wins = @ + 1]
         IN [t1 EXCEPT ![rebel_team_id].losses = @ + 1]
  ELSE LET t1 == [ts EXCEPT ![rebel_team_id].wins = @ + 1]
       IN [t1 EXCEPT ![imperial_team_id].losses = @ + 1]

(* The win/loss counters of the teams table after a match. *)
WinLossAfter(ts, imperial_team_id, rebel_team_id, winner) ==
  IF winner = "IMPERIAL"
    THEN LET t1 == [ts EXCEPT ![imperial_team_id].wins = @ + 1]
         IN [t1 EXCEPT ![rebel_team_id].losses = @ + 1]
  ELSE IF winner = "REBEL"
    THEN LET t1 == [ts EXCEPT ![rebel_team_id].wins = @ + 1]
         IN [t1 EXCEPT ![imperial_team_id].losses = @ + 1]
  ELSE ts

NoOutput ==
  [gen |-> "none", match_type |-> "none", ladder |-> <<>>, history |-> <<>>,
   ratings |-> <<>>]

(* What the model explores: at most MaxMatches matches, and either every   *)
(* match is a pickup match, or the rosters name one player and no role.    *)
InBounds(ms, ps, stats) ==
  /\ Len(ms) <= MaxMatches
  /\ \/ \A i \in DOMAIN ms : ms[i].match_type = "pickup"
     \/ \A i \in DOMAIN stats :
          stats[i].role = NoRole /\ ps[stats[i].player_id].name = 1

process_match_data(match_result, match_date, match_type, imperial_typed, rebel_typed, imperial_players, rebel_players) ==
  LET winner == NormalizeWinner(match_result)
      imperial_team_name == ImperialTeamName(match_type, imperial_typed)
      rebel_team_name == RebelTeamName(match_type, rebel_typed)
      teams1 == TeamsAfter(TeamsAfter(teams, imperial_team_name), rebel_team_name)
      imperial_team_id == TeamId(teams1, imperial_team_name)
      rebel_team_id == TeamId(teams1, rebel_team_name)
      match_id == Len(matches) + 1
      players1 == PlayersAfterRoster(PlayersAfterRoster(players, imperial_players),
                                     rebel_players)
      matches1 == Append(matches,
                         [match_date |-> match_date,
                          imperial_team_id |-> imperial_team_id,
                          rebel_team_id |-> rebel_team_id,
                          winner |-> winner,
                          match_type |-> match_type])
      stats1 == player_stats
                  \o StatRows(players1, match_id, imperial_team_id, "IMPERIAL",
                              imperial_players, match_type)
                  \o StatRows(players1, match_id, rebel_team_id, "REBEL",
                              rebel_players, match_type)
  IN /\ InBounds(matches1, players1, stats1)
     /\ teams' = WinLossAfter(teams1, imperial_team_id, rebel_team_id, winner)
     /\ players' = players1
     /\ matches' = matches1
     /\ player_stats' = stats1
     /\ out' = NoOutput
     /\ UNCHANGED registry_vars
     /\ UNCHANGED ingest_vars

ProcessMatchData ==
  /\ Len(matches) < MaxMatches
  /\ \E match_result \in ResultTexts, match_date \in MatchDates,
        match_type \in MatchTypeInputs,
        imperial_typed \in TeamNameInputs, rebel_typed \in TeamNameInputs,
        imperial_players \in Rosters, rebel_players \in Rosters :
          /\ match_type # "team" =>
               imperial_typed = "Alpha" /\ rebel_typed = "Alpha"
          /\ process_match_data(match_result, match_date, match_type, imperial_typed,
                                rebel_typed, imperial_players, rebel_players)

(* process_match_data for a pickup match with two players in one faction  *)
(* and one in the other.  The names of the players are numbers and a       *)
(* player is known by its row in the table only, so the rosters are taken  *)
(* with the names in the order of their first appearance: the name of the  *)
(* i-th row of the players table is i.                                     *)
WideRoles == {NoRole, "Flex"}
WidePlayerData == [player : 1..NumFactionPlayers, role : WideRoles]
WideRosters(n) == [1..n -> WidePlayerData]

ProcessFactionMatch ==
  /\ Len(matches) < MaxMatches
  /\ \E match_result \in {{"IMPERIAL"}, {"REBEL"}}, n \in 1..2 :
     \E imperial_players \in WideRosters(n), rebel_players \in WideRosters(3 - n) :
       /\ \E ps \in {PlayersAfterRoster(PlayersAfterRoster(players, imperial_players),
                                         rebel_players)} :
            \A i \in DOMAIN ps : ps[i].name = i
       /\ process_match_data(match_result, 1, "pickup", "Alpha", "Alpha",
                             imperial_players, rebel_players)

(***************************************************************************)
(* The queries of the ladder generators.  V is the set of the match rows   *)
(* the query sees: every row of the matches table in a run.                *)
(***************************************************************************)
AllMatches == DOMAIN matches

(* A variant without the condition on the winner. *)
IsAnyOutcome(m) == m \in DOMAIN matches

(* WHERE m.winner IN ('IMPERIAL', 'REBEL') *)
IsDecisive(m) == matches[m].winner \in {"IMPERIAL", "REBEL"}

(* ORDER BY m.match_date, m.id *)
ByDateThenId(a, b) ==
  \/ matches[a].match_date < matches[b].match_date
  \/ matches[a].match_date = matches[b].match_date /\ a <= b

(* ORDER BY m.match_date *)
ByDate(a, b) == matches[a].match_date <= matches[b].match_date

(* A variant of the query of one type that orders by m.match_date alone. *)
QueryMatchesOfTypeByDate(V, match_type) ==
  OrderedBy({m \in V : IsDecisive(m) /\ matches[m].match_type = match_type},
            {p \in V \X V : ByDate(p[1], p[2])})

(* The decisive matches of one type, ORDER BY m.match_date, m.id. *)
QueryMatchesOfType(V, match_type) ==
  OrderedBy({m \in V : IsDecisive(m) /\ matches[m].match_type = match_type},
            {p \in V \X V : ByDateThenId(p[1], p[2])})

(* The decisive matches of every type, ORDER BY m.match_date. *)
QueryAllMatches(V) ==
  OrderedBy({m \in V : IsDecisive(m)}, {p \in V \X V : ByDate(p[1], p[2])})

(* SELECT id, name FROM teams: a scan of the covering UNIQUE(name) index. *)
TeamRows ==
  LET ByName(a, b) == NameRank(teams[a].name) <= NameRank(teams[b].name)
  IN CHOOSE s \in OrderedBy(DOMAIN teams,
                            {p \in (DOMAIN teams) \X (DOMAIN teams) : ByName(p[1], p[2])}) :
       TRUE

(* SELECT id, name, player_hash FROM players: a scan in rowid order. *)
PlayerRows == [i \in DOMAIN players |-> i]

(* SELECT ... FROM player_stats WHERE match_id = ? AND faction = ? *)
FactionRows(m, faction) ==
  SelectSeq(player_stats, LAMBDA row : row.match_id = m /\ row.faction = faction)

StartingRating == starting_elo * Milli

(* A variant that scores every match as a draw. *)
ImperialActualDrawn(m) == Milli \div 2

(* "Determine actual outcomes": imperial_actual, in thousandths. *)
ImperialActual(m) == IF matches[m].winner = "IMPERIAL" THEN Milli ELSE 0

Member(id, role, old_rating, new_rating) ==
  [id |-> id, role |-> role, old_rating |-> old_rating, new_rating |-> new_rating,
   rating_change |-> new_rating - old_rating]

(* Assigns rank i + 1 to the i-th entry of a sorted ladder. *)
WithRank(ladder) == [i \in DOMAIN ladder |-> [ladder[i] EXCEPT !.rank = i]]

SortedLadder(entries) ==
  WithRank(SortDescStable(entries))

(***************************************************************************)
(* generate_elo_ladder and generate_combined_ladder: one rating per team.  *)
(***************************************************************************)
(* The body of the loop over the matches: the ratings after match m and    *)
(* the history event it appends.                                           *)
TeamMatchUpdate(elo_ratings, m) ==
  LET imperial_id == matches[m].imperial_team_id
      rebel_id == matches[m].rebel_team_id
      imperial_rating == elo_ratings[imperial_id]
      rebel_rating == elo_ratings[rebel_id]
      imperial_expected == calculate_expected_outcome(imperial_rating, rebel_rating)
      rebel_expected == Milli - imperial_expected
      imperial_actual == ImperialActual(m)
      rebel_actual == Milli - imperial_actual
      new_imperial_rating ==
        calculate_new_rating(imperial_rating, imperial_expected, imperial_actual, k_factor)
      new_rebel_rating ==
        calculate_new_rating(rebel_rating, rebel_expected, rebel_actual, k_factor)
      ratings1 == [elo_ratings EXCEPT ![imperial_id] = new_imperial_rating]
  IN [ratings |-> [ratings1 EXCEPT ![rebel_id] = new_rebel_rating],
      event |-> [match_id |-> m,
                 match_date |-> matches[m].match_date,
                 imperial |-> <<Member(imperial_id, NoRole, imperial_rating,
                                       new_imperial_rating)>>,
                 rebel |-> <<Member(rebel_id, NoRole, rebel_rating, new_rebel_rating)>>,
                 winner |-> matches[m].winner]]

RECURSIVE TeamReplay(_, _, _)
TeamReplay(order, elo_ratings, elo_history) ==
  IF order = <<>> THEN [ratings |-> elo_ratings, history |-> elo_history]
  ELSE LET step == TeamMatchUpdate(elo_ratings, Head(order))
       IN TeamReplay(Tail(order), step.ratings, Append(elo_history, step.event))

(* The match rows the counting query of a team ladder selects; match_type  *)
(* is "all" for the combined ladder, which counts every type.              *)
TeamCountedMatches(V, team_id, match_type) ==
  {m \in V : /\ matches[m].imperial_team_id = team_id
                \/ matches[m].rebel_team_id = team_id
             /\ IsDecisive(m)
             /\ match_type # "all" => matches[m].match_type = match_type}

TeamLadderEntry(V, elo_ratings, team_id, match_type) ==
  LET counted == TeamCountedMatches(V, team_id, match_type)
      matches_played == Count(counted)
      matches_won ==
        Count({m \in counted :
                 \/ matches[m].imperial_team_id = team_id /\ matches[m].winner = "IMPERIAL"
                 \/ matches[m].rebel_team_id = team_id /\ matches[m].winner = "REBEL"})
      matches_lost ==
        Count({m \in counted :
                 \/ matches[m].imperial_team_id = team_id /\ matches[m].winner = "REBEL"
                 \/ matches[m].rebel_team_id = team_id /\ matches[m].winner = "IMPERIAL"})
  IN [id |-> team_id,
      role |-> NoRole,
      elo_rating |-> RoundMilli(elo_ratings[team_id]),
      matches_played |-> matches_played,
      matches_won |-> matches_won,
      matches_lost |-> matches_lost,
      win_rate |-> WinRate(matches_won, matches_played),
      rank |-> 0]

(* "Build the final ladder": one entry for every row of the teams table. *)
TeamLadder(V, elo_ratings, match_type) ==
  LET rows == TeamRows
  IN SortedLadder([i \in DOMAIN rows |->
                     TeamLadderEntry(V, elo_ratings, rows[i], match_type)])

InitialRatings(ids) == [id \in ids |-> StartingRating]

(* What a team generator returns when its query yields the matches in the *)
(* given order.                                                            *)
TeamOutput(gen, V, order, match_type) ==
  LET run == TeamReplay(order, InitialRatings(DOMAIN teams), <<>>)
  IN [gen |-> gen,
      match_type |-> match_type,
      ladder |-> [team |-> TeamLadder(V, run.ratings, match_type)],
      history |-> [team |-> run.history],
      ratings |-> [team |-> run.ratings]]

generate_elo_ladder(V, match_type) ==
  {TeamOutput("generate_elo_ladder", V, order, match_type) :
     order \in QueryMatchesOfType(V, match_type)}

generate_combined_ladder(V) ==
  {TeamOutput("generate_combined_ladder", V, order, "all") :
     order \in QueryAllMatches(V)}

(***************************************************************************)
(* generate_player_elo_ladder and generate_role_specific_elo: one rating   *)
(* per player, and one per player and role.                                *)
(***************************************************************************)
RolePools == {"Flex", "Support", "Farmer"}

(* imperial_elo_sum / len(imperial_players), to the thousandth below. *)
AverageElo(elo_ratings, rows) ==
  SumSeq([i \in DOMAIN rows |-> elo_ratings[rows[i].player_id]]) \div Len(rows)

(* "Update imperial player ratings": the loop over the rows of one faction, *)
(* each row reading the rating the rows before it left.                    *)
RECURSIVE UpdateRows(_, _, _, _, _)
UpdateRows(rows, elo_ratings, expected, actual, players_history) ==
  IF rows = <<>> THEN [ratings |-> elo_ratings, members |-> players_history]
  ELSE LET player_id == Head(rows).player_id
           old_rating == elo_ratings[player_id]
           new_rating == calculate_new_rating(old_rating, expected, actual, k_factor)
       IN UpdateRows(Tail(rows), [elo_ratings EXCEPT ![player_id] = new_rating],
                     expected, actual,
                     Append(players_history,
                            Member(player_id, Head(rows).role, old_rating, new_rating)))

(* A variant that keeps every row, whatever its role. *)
RowsOfAnyRole(rows, role) == rows

(* "if player['role'] == 'Flex'": the rows of a faction that take part in  *)
(* the pool of a role.                                                     *)
RowsOfRole(rows, role) == SelectSeq(rows, LAMBDA row : row.role = role)

(* A variant that computes the expectation from the averages of the role   *)
(* ratings of the rows of the role; a side without such a row counts as    *)
(* StartingRating.                                                         *)
RoleRestrictedExpected(imperial_expected, role_ratings, imperial_rows, rebel_rows) ==
  LET Avg(rows) == IF rows = <<>> THEN StartingRating ELSE AverageElo(role_ratings, rows)
  IN calculate_expected_outcome(Avg(imperial_rows), Avg(rebel_rows))

(* The expected outcome of the imperial side that the update of a role     *)
(* pool uses: imperial_expected, computed from the general ratings.        *)
RolePoolExpected(imperial_expected, role_ratings, imperial_rows, rebel_rows) ==
  imperial_expected

(* A variant that computes the expectation of the rebel side after the    *)
(* update of the imperial rows, from the ratings that update left.         *)
PoolUpdate_sequential(elo_ratings, m, imperial_rows, rebel_rows, imperial_expected, imperial_avg_elo, rebel_avg_elo) ==
  LET imperial_actual == ImperialActual(m)
      imp == UpdateRows(imperial_rows, elo_ratings, imperial_expected,
                        imperial_actual, <<>>)
      rebel_expected ==
        IF imperial_rows = <<>> \/ rebel_rows = <<>> THEN Milli - imperial_expected
        ELSE calculate_expected_outcome(AverageElo(imp.ratings, rebel_rows),
                                        AverageElo(imp.ratings, imperial_rows))
      reb == UpdateRows(rebel_rows, imp.ratings, rebel_expected,
                        Milli - imperial_actual, <<>>)
  IN [ratings |-> reb.ratings,
      event |-> [match_id |-> m,
                 match_date |-> matches[m].match_date,
                 imperial |-> imp.members,
                 rebel |-> reb.members,
                 winner |-> matches[m].winner,
                 imperial_avg_elo |-> imperial_avg_elo,
                 rebel_avg_elo |-> rebel_avg_elo]]

(* The update of one pool by one match: the rows of both factions that     *)
(* take part in the pool, imperial rows first.                             *)
PoolUpdate(elo_ratings, m, imperial_rows, rebel_rows, imperial_expected, imperial_avg_elo, rebel_avg_elo) ==
  LET imperial_actual == ImperialActual(m)
      imp == UpdateRows(imperial_rows, elo_ratings, imperial_expected,
                        imperial_actual, <<>>)
      reb == UpdateRows(rebel_rows, imp.ratings, Milli - imperial_expected,
                        Milli - imperial_actual, <<>>)
  IN [ratings |-> reb.ratings,
      event |-> [match_id |-> m,
                 match_date |-> matches[m].match_date,
                 imperial |-> imp.members,
                 rebel |-> reb.members,
                 winner |-> matches[m].winner,
                 imperial_avg_elo |-> imperial_avg_elo,
                 rebel_avg_elo |-> rebel_avg_elo]]

(* The body of the loop over the matches, for the general pool and the     *)
(* pools of the given roles.  st.ratings[pool] and st.history[pool].       *)
PlayerMatchUpdate(st, m) ==
  LET imperial_players == FactionRows(m, "IMPERIAL")
      rebel_players == FactionRows(m, "REBEL")
      general == st.ratings["general"]
      imperial_avg_elo == AverageElo(general, imperial_players)
      rebel_avg_elo == AverageElo(general, rebel_players)
      imperial_expected == calculate_expected_outcome(imperial_avg_elo, rebel_avg_elo)
      Rows(pool, rows) == IF pool = "general" THEN rows ELSE RowsOfRole(rows, pool)
      Expected(pool) ==
        IF pool = "general" THEN imperial_expected
        ELSE RolePoolExpected(imperial_expected, st.ratings[pool],
                              Rows(pool, imperial_players), Rows(pool, rebel_players))
      upd == [pool \in DOMAIN st.ratings |->
                PoolUpdate(st.ratings[pool], m, Rows(pool, imperial_players),
                           Rows(pool, rebel_players), Expected(pool),
                           imperial_avg_elo, rebel_avg_elo)]
      Recorded(pool) ==
        pool = "general" \/ upd[pool].event.imperial # <<>> \/ upd[pool].event.rebel # <<>>
  IN IF imperial_players = <<>> \/ rebel_players = <<>> THEN st
     ELSE [ratings |-> [pool \in DOMAIN st.ratings |-> upd[pool].ratings],
           history |-> [pool \in DOMAIN st.ratings |->
                          IF Recorded(pool)
                            THEN Append(st.history[pool], upd[pool].event)
                            ELSE st.history[pool]]]

RECURSIVE PlayerReplay(_, _)
PlayerReplay(order, st) ==
  IF order = <<>> THEN st
  ELSE PlayerReplay(Tail(order), PlayerMatchUpdate(st, Head(order)))

(* The player_stats rows the counting queries select for one player: the   *)
(* rows joined to a decisive match of the type.                            *)
PlayerCountedRows(V, player_id, match_type) ==
  {i \in DOMAIN player_stats :
     /\ player_stats[i].player_id = player_id
     /\ player_stats[i].match_id \in V
     /\ matches[player_stats[i].match_id].match_type = match_type
     /\ IsDecisive(player_stats[i].match_id)}

RowWon(i) == player_stats[i].faction = matches[player_stats[i].match_id].winner

RoleRank(role) ==
  CASE role = "Farmer" -> 1 [] role = "Flex" -> 2 [] role = "Support" -> 3

(* "Get the player's most common role": GROUP BY ps.role ORDER BY          *)
(* role_count DESC LIMIT 1 over the rows of the type that have a role.     *)
MostCommonRole(V, player_id, match_type) ==
  LET rows == {i \in DOMAIN player_stats :
                 /\ player_stats[i].player_id = player_id
                 /\ player_stats[i].match_id \in V
                 /\ matches[player_stats[i].match_id].match_type = match_type
                 /\ player_stats[i].role # NoRole}
      role_count(r) == Count({i \in rows : player_stats[i].role = r})
      present == {r \in RolePools : role_count(r) > 0}
  IN IF present = {} THEN NoRole
     ELSE CHOOSE r \in present :
            \A q \in present :
              \/ role_count(q) < role_count(r)
              \/ role_count(q) = role_count(r) /\ RoleRank(q) <= RoleRank(r)

PlayerEntry(player_id, role, rating, played, won, lost) ==
  [id |-> player_id,
   role |-> role,
   elo_rating |-> RoundMilli(rating),
   matches_played |-> played,
   matches_won |-> won,
   matches_lost |-> lost,
   win_rate |-> WinRate(won, played),
   rank |-> 0]

(* The entry of the general ladder for one player; shown_role is the role  *)
(* the entry displays.                                                     *)
GeneralEntry(V, elo_ratings, player_id, match_type, shown_role) ==
  LET rows == PlayerCountedRows(V, player_id, match_type)
  IN PlayerEntry(player_id, shown_role, elo_ratings[player_id],
                 Count({player_stats[i].match_id : i \in rows}),
                 Count({i \in rows : RowWon(i)}),
                 Count({i \in rows : ~RowWon(i)}))

PlaysType(V, player_id, match_type) ==
  PlayerCountedRows(V, player_id, match_type) # {}

(* The ladder of generate_player_elo_ladder. *)
PlayerLadder(V, elo_ratings, match_type) ==
  LET listed == SelectSeq(PlayerRows, LAMBDA p : PlaysType(V, p, match_type))
  IN SortedLadder([i \in DOMAIN listed |->
                     GeneralEntry(V, elo_ratings, listed[i], match_type, NoRole)])

(* The general ladder of generate_role_specific_elo. *)
RoleGeneralLadder(V, elo_ratings, match_type) ==
  LET listed == SelectSeq(PlayerRows, LAMBDA p : PlaysType(V, p, match_type))
  IN SortedLadder([i \in DOMAIN listed |->
                     GeneralEntry(V, elo_ratings, listed[i], match_type,
                                  MostCommonRole(V, listed[i], match_type))])

(* The ladder of one role: the players that pass the general test and have *)
(* a counted row with the role (GROUP BY ps.role, counting the rows).      *)
RoleLadder(V, role_ratings, match_type, role) ==
  LET RoleRowsOf(p) ==
        {i \in PlayerCountedRows(V, p, match_type) : player_stats[i].role = role}
      listed == SelectSeq(PlayerRows, LAMBDA p : RoleRowsOf(p) # {})
  IN SortedLadder([i \in DOMAIN listed |->
                     LET rows == RoleRowsOf(listed[i])
                     IN PlayerEntry(listed[i], role, role_ratings[listed[i]],
                                    Count(rows),
                                    Count({j \in rows : RowWon(j)}),
                                    Count({j \in rows : ~RowWon(j)}))])

InitialPools(pools) ==
  [ratings |-> [pool \in pools |-> InitialRatings(DOMAIN players)],
   history |-> [pool \in pools |-> <<>>]]

generate_player_elo_ladder(V, match_type) ==
  {LET run == PlayerReplay(order, InitialPools({"general"}))
   IN [gen |-> "generate_player_elo_ladder",
       match_type |-> match_type,
       ladder |-> [general |-> PlayerLadder(V, run.ratings["general"], match_type)],
       history |-> run.history,
       ratings |-> run.ratings] :
     order \in QueryMatchesOfType(V, match_type)}

generate_role_specific_elo(V, match_type) ==
  {LET run == PlayerReplay(order, InitialPools({"general"} \cup RolePools))
   IN [gen |-> "generate_role_specific_elo",
       match_type |-> match_type,
       ladder |-> [pool \in {"general"} \cup RolePools |->
                     IF pool = "general"
                       THEN RoleGeneralLadder(V, run.ratings["general"], match_type)
                       ELSE RoleLadder(V, run.ratings[pool], match_type, pool)],
       history |-> run.history,
       ratings |-> run.ratings] :
     order \in QueryMatchesOfType(V, match_type)}

(* A generator runs on the database as ingested, and may run again. *)
MayRun(gen) == out.gen \in {"none", gen}

GenerateEloLadder ==
  /\ MayRun("generate_elo_ladder")
  /\ out' \in generate_elo_ladder(AllMatches, "team")
  /\ UNCHANGED <<teams, players, matches, player_stats>>
  /\ UNCHANGED registry_vars
  /\ UNCHANGED ingest_vars

GenerateCombinedLadder ==
  /\ MayRun("generate_combined_ladder")
  /\ out' \in generate_combined_ladder(AllMatches)
  /\ UNCHANGED <<teams, players, matches, player_stats>>
  /\ UNCHANGED registry_vars
  /\ UNCHANGED ingest_vars

GeneratePlayerEloLadder ==
  /\ MayRun("generate_player_elo_ladder")
  /\ out' \in generate_player_elo_ladder(AllMatches, "pickup")
  /\ UNCHANGED <<teams, players, matches, player_stats>>
  /\ UNCHANGED registry_vars
  /\ UNCHANGED ingest_vars

GenerateRoleSpecificElo ==
  /\ MayRun("generate_role_specific_elo")
  /\ out' \in generate_role_specific_elo(AllMatches, "pickup")
  /\ UNCHANGED <<teams, players, matches, player_stats>>
  /\ UNCHANGED registry_vars
  /\ UNCHANGED ingest_vars

(***************************************************************************)
(* The reference database (stats_reader/reference_manager.py).             *)
(*                                                                         *)
(* Text.  A text is a sequence of characters, each a string of length one; *)
(* NULL is the SQL NULL and Python's None.  The alias column holds the     *)
(* aliases of a row as one text, joined by commas.                         *)
(***************************************************************************)
NULL == <<"NULL">>

Comma == ","

(* UPPER() of SQLite and the case folding of LIKE: ASCII letters only. *)
Upper(c) ==
  CASE c = "a" -> "A"
    [] c = "b" -> "B"
    [] c = "c" -> "C"
    [] c = "d" -> "D"
    [] c = "e" -> "E"
    [] c = "i" -> "I"
    [] c = "k" -> "K"
    [] c = "l" -> "L"
    [] c = "m" -> "M"
    [] c = "n" -> "N"
    [] c = "o" -> "O"
    [] c = "p" -> "P"
    [] c = "r" -> "R"
    [] c = "t" -> "T"
    [] c = "u" -> "U"
    [] c = "v" -> "V"
    [] c = "y" -> "Y"
    [] OTHER -> c

(* str.lower() on the characters of the model. *)
Lower(c) ==
  CASE c = "A" -> "a"
    [] c = "B" -> "b"
    [] c = "C" -> "c"
    [] c = "I" -> "i"
    [] c = "N" -> "n"
    [] c = "R" -> "r"
    [] c = "S" -> "s"
    [] c = "W" -> "w"
    [] c = "Y" -> "y"
    [] OTHER -> c

UpperText(t) == [i \in DOMAIN t |-> Upper(t[i])]

LowerText(t) == [i \in DOMAIN t |-> Lower(t[i])]

(* str.strip() and TRIM(): the text without its leading and trailing       *)
(* spaces.                                                                 *)
RECURSIVE Strip(_)
Strip(t) ==
  IF t = <<>> THEN t
  ELSE IF Head(t) = " " THEN Strip(Tail(t))
  ELSE IF t[Len(t)] = " " THEN Strip(SubSeq(t, 1, Len(t) - 1))
  ELSE t

(* str.split(','): the pieces between the commas, empty pieces included. *)
RECURSIVE Split(_)
Split(t) ==
  IF \E i \in DOMAIN t : t[i] = Comma
    THEN LET i == CHOOSE k \in DOMAIN t :
                    t[k] = Comma /\ \A j \in 1..(k - 1) : t[j] # Comma
         IN <<SubSeq(t, 1, i - 1)>> \o Split(SubSeq(t, i + 1, Len(t)))
    ELSE <<t>>

(* ",".join(list) *)
RECURSIVE Join(_)
Join(list) ==
  IF list = <<>> THEN <<>>
  ELSE IF Len(list) = 1 THEN list[1]
  ELSE list[1] \o <<Comma>> \o Join(Tail(list))

(* text LIKE pattern in SQLite: "%" matches any run of characters, "_" any *)
(* one character, and a letter matches in either case.                     *)
RECURSIVE Like(_, _)
Like(t, pattern) ==
  IF pattern = <<>> THEN t = <<>>
  ELSE IF Head(pattern) = "%"
    THEN \E k \in 0..Len(t) : Like(SubSeq(t, k + 1, Len(t)), Tail(pattern))
  ELSE /\ t # <<>>
       /\ Head(pattern) = "_" \/ Upper(Head(pattern)) = Upper(Head(t))
       /\ Like(Tail(t), Tail(pattern))

(* BINARY collation and Python's order of str: the characters by code      *)
(* point, a prefix before its extensions.                                  *)
CodePoint(c) ==
  CASE c = " " -> 32
    [] c = "%" -> 37
    [] c = "," -> 44
    [] c = "A" -> 65
    [] c = "B" -> 66
    [] c = "_" -> 95
    [] c = "a" -> 97
    [] c = "b" -> 98

RECURSIVE Before(_, _)
Before(s, t) ==
  IF t = <<>> THEN FALSE
  ELSE IF s = <<>> THEN TRUE
  ELSE IF Head(s) # Head(t) THEN CodePoint(Head(s)) < CodePoint(Head(t))
  ELSE Before(Tail(s), Tail(t))

(* difflib.SequenceMatcher.find_longest_match: the longest block that a    *)
(* and b share, the one that starts earliest in a and then earliest in b;  *)
(* <<i, j, k>> with a[i .. i+k-1] = b[j .. j+k-1], and k = 0 if they share *)
(* no character.                                                           *)
find_longest_match(a, b) ==
  LET blocks == {x \in (1..Len(a)) \X (1..Len(b)) \X (1..Len(b)) :
                   /\ x[1] + x[3] - 1 <= Len(a)
                   /\ x[2] + x[3] - 1 <= Len(b)
                   /\ SubSeq(a, x[1], x[1] + x[3] - 1) = SubSeq(b, x[2], x[2] + x[3] - 1)}
      Better(x, y) ==
        \/ x[3] > y[3]
        \/ x[3] = y[3] /\ x[1] < y[1]
        \/ x[3] = y[3] /\ x[1] = y[1] /\ x[2] < y[2]
  IN IF blocks = {} THEN <<1, 1, 0>>
     ELSE CHOOSE x \in blocks : \A y \in blocks : y = x \/ Better(x, y)

(* The number of characters in the matching blocks of a and b              *)
(* (get_matching_blocks: the longest block, then the same to its left and  *)
(* to its right).                                                          *)
RECURSIVE MatchingCharacters(_, _)
MatchingCharacters(a, b) ==
  LET m == find_longest_match(a, b)
  IN IF m[3] = 0 THEN 0
     ELSE m[3]
          + MatchingCharacters(SubSeq(a, 1, m[1] - 1), SubSeq(b, 1, m[2] - 1))
          + MatchingCharacters(SubSeq(a, m[1] + m[3], Len(a)),
                               SubSeq(b, m[2] + m[3], Len(b)))

(* A score is a ratio in sixtieths: exact for texts of up to six           *)
(* characters together.                                                    *)
ScoreUnit == 60

(* difflib.SequenceMatcher(None, a, b).ratio(): 2.0 * matches / length. *)
Ratio(a, b) ==
  IF Len(a) + Len(b) = 0 THEN ScoreUnit
  ELSE (2 * MatchingCharacters(a, b) * ScoreUnit) \div (Len(a) + Len(b))

(***************************************************************************)
(* The tables ref_teams and ref_players: a function from the ids of the    *)
(* rows to the rows, [name, alias].  The columns primary_team_id,          *)
(* primary_role and source_file take no part in the lookups and are left   *)
(* out.  A scan of a table yields its rows by ascending id (rowid).        *)
(***************************************************************************)
NoTable == <<>>

(* lastrowid of an INSERT into an INTEGER PRIMARY KEY table: one more than *)
(* the largest id in use.                                                  *)
NextId(table) ==
  IF DOMAIN table = {} THEN 1
  ELSE 1 + CHOOSE i \in DOMAIN table : \A j \in DOMAIN table : j <= i

InsertRow(table, row) ==
  [i \in DOMAIN table \cup {NextId(table)} |->
     IF i \in DOMAIN table THEN table[i] ELSE row]

(* DELETE FROM ... WHERE id IN (ids) *)
DeleteRows(table, ids) == [i \in DOMAIN table \ ids |-> table[i]]

(* The first row of a scan that satisfies a condition, given as the set of *)
(* the ids that satisfy it (cursor.fetchone()); 0 stands for None.         *)
FetchOne(ids) == IF ids = {} THEN 0 ELSE CHOOSE i \in ids : \A j \in ids : i <= j

(* alias_text: the aliases passed as a list, joined; an empty list stands  *)
(* for alias=None.                                                         *)
AliasText(alias) == IF alias = <<>> THEN NULL ELSE Join(alias)

(* The result of a method that changes a table: the table it leaves and    *)
(* the value it returns.                                                   *)
Outcome(table, result) == [table |-> table, result |-> result, raised |-> "none"]

(* A method that lets an exception through: the table as it was. *)
Raised(table, error) == [table |-> table, result |-> FALSE, raised |-> error]

(* add_team and add_player: INSERT, and on the IntegrityError of the       *)
(* UNIQUE(name) constraint, which compares with BINARY collation, the id   *)
(* of the row that has the name.                                           *)
AddRow(table, name, alias) ==
  LET same == {i \in DOMAIN table : table[i].name = name}
  IN IF same = {}
       THEN Outcome(InsertRow(table, [name |-> name, alias |-> AliasText(alias)]),
                    NextId(table))
       ELSE Outcome(table, FetchOne(same))

add_team(table, name, alias) == AddRow(table, name, alias)

add_player(table, name, alias) == AddRow(table, name, alias)

(* The pieces of an alias column, as alias.split(',') yields them; none    *)
(* for NULL and for the empty text ("if alias_str").                       *)
AliasPieces(alias) == IF alias = NULL \/ alias = <<>> THEN <<>> ELSE Split(alias)

(* The best score of the fuzzy loop of get_team after the rows before id   *)
(* and the row that holds it: the name first, then each alias, a score     *)
(* replacing the best one only if it is greater.                           *)
RECURSIVE BestOfPieces(_, _, _, _, _)
BestOfPieces(pieces, name, id, best, match_threshold) ==
  IF pieces = <<>> THEN best
  ELSE LET alias_score == Ratio(LowerText(name), LowerText(Head(pieces)))
           better == alias_score > best.score /\ alias_score >= match_threshold
       IN BestOfPieces(Tail(pieces), name, id,
                       IF better THEN [id |-> id, score |-> alias_score] ELSE best,
                       match_threshold)

RECURSIVE BestTeam(_, _, _, _, _)
BestTeam(table, ids, name, best, match_threshold) ==
  IF ids = {} THEN best
  ELSE LET id == FetchOne(ids)
           score == Ratio(LowerText(name), LowerText(table[id].name))
           best1 == IF score > best.score /\ score >= match_threshold
                      THEN [id |-> id, score |-> score] ELSE best
       IN BestTeam(table, ids \ {id}, name,
                   BestOfPieces(AliasPieces(table[id].alias), name, id, best1,
                                match_threshold),
                   match_threshold)

(* get_team: the id of the team returned, 0 for None. *)
get_team(table, name, fuzzy_match, match_threshold) ==
  LET exact == FetchOne({i \in DOMAIN table : table[i].name = name})
      by_alias ==
        FetchOne({i \in DOMAIN table :
                    /\ table[i].alias # NULL
                    /\ Like(table[i].alias, <<"%">> \o name \o <<"%">>)})
  IN IF exact # 0 THEN exact
     ELSE IF ~fuzzy_match THEN 0
     ELSE IF by_alias # 0 THEN by_alias
     ELSE BestTeam(table, DOMAIN table, name, [id |-> 0, score |-> 0],
                   match_threshold).id

(* get_player: the id of the player returned, 0 for None. *)
get_player(table, name) ==
  LET exact ==
        FetchOne({i \in DOMAIN table : UpperText(Strip(table[i].name)) = UpperText(name)})
      by_alias ==
        FetchOne({i \in DOMAIN table :
                    /\ table[i].alias # NULL
                    /\ \/ Like(table[i].alias, <<"%", Comma>> \o name \o <<Comma, "%">>)
                       \/ Like(table[i].alias, name \o <<Comma, "%">>)
                       \/ Like(table[i].alias, <<"%", Comma>> \o name)
                       \/ table[i].alias = name})
  IN IF exact # 0 THEN exact ELSE by_alias

(* The score find_fuzzy_player_matches gives a row: the score of the name  *)
(* if it reaches the threshold, replaced by the score of each alias that   *)
(* reaches the threshold and is greater; 0 if none does.                   *)
RECURSIVE BestAliasScore(_, _, _, _)
BestAliasScore(pieces, name, best_score, match_threshold) ==
  IF pieces = <<>> THEN best_score
  ELSE LET alias_score == Ratio(LowerText(name), LowerText(Strip(Head(pieces))))
       IN BestAliasScore(Tail(pieces), name,
                         IF alias_score > best_score /\ alias_score >= match_threshold
                           THEN alias_score ELSE best_score,
                         match_threshold)

PlayerScore(row, name, match_threshold) ==
  LET name_score == Ratio(LowerText(name), LowerText(row.name))
  IN BestAliasScore(AliasPieces(row.alias), name,
                    IF name_score >= match_threshold THEN name_score ELSE 0,
                    match_threshold)

(* potential_matches.sort(key=lambda x: x['match_score'], reverse=True):   *)
(* stable, and descending by match_score.                                  *)
SortByScore(s) ==
  LET n == Len(s)
      pos(i) == 1 + Count({j \in 1..n :
                             \/ s[j].match_score > s[i].match_score
                             \/ s[j].match_score = s[i].match_score /\ j < i})
  IN [p \in 1..n |-> s[CHOOSE i \in 1..n : pos(i) = p]]

(* The rows of a table in the order of a scan. *)
RECURSIVE ScanRows(_, _)
ScanRows(table, ids) ==
  IF ids = {} THEN <<>>
  ELSE LET id == FetchOne(ids)
       IN <<[id |-> id, name |-> table[id].name, alias |-> table[id].alias]>>
            \o ScanRows(table, ids \ {id})

(* find_fuzzy_player_matches: the list of [id, name, match_score]. *)
find_fuzzy_player_matches(table, name, match_threshold) ==
  LET all_players == ScanRows(table, DOMAIN table)
      scored == [i \in DOMAIN all_players |->
                   [id |-> all_players[i].id,
                    name |-> all_players[i].name,
                    match_score |-> PlayerScore(all_players[i], name, match_threshold)]]
  IN SortByScore(SelectSeq(scored, LAMBDA m : m.match_score > 0))

(* Whether a text is one of the elements of a list. *)
InList(t, list) == \E i \in DOMAIN list : list[i] = t

(* A variant that creates the row of an unknown id. *)
add_player_alias_upsert(table, player_id, new_alias) ==
  Outcome([i \in DOMAIN table \cup {player_id} |->
             IF i = player_id THEN [name |-> new_alias, alias |-> new_alias]
             ELSE table[i]],
          TRUE)

(* add_player_alias: False for an unknown id and for an alias that is      *)
(* empty once stripped, True without a change for an alias the list has,   *)
(* and otherwise the alias appended to the stripped aliases and the list   *)
(* joined again.                                                           *)
add_player_alias(table, player_id, new_alias) ==
  IF player_id \notin DOMAIN table THEN Outcome(table, FALSE)
  ELSE LET pieces == AliasPieces(table[player_id].alias)
           aliases == [i \in DOMAIN pieces |-> Strip(pieces[i])]
           new_alias_stripped == Strip(new_alias)
       IN IF new_alias_stripped # <<>> /\ ~InList(new_alias_stripped, aliases)
            THEN Outcome([table EXCEPT ![player_id].alias =
                                         Join(Append(aliases, new_alias_stripped))],
                         TRUE)
          ELSE IF InList(new_alias_stripped, aliases) THEN Outcome(table, TRUE)
          ELSE Outcome(table, FALSE)

(* update_player with name and alias; NULL for name and the empty list for *)
(* alias stand for None.  An UPDATE that would give two rows one name      *)
(* raises sqlite3.IntegrityError, which the method lets through.           *)
update_player(table, player_id, name, alias) ==
  LET row == table[player_id]
      row1 == IF name # NULL THEN [row EXCEPT !.name = name] ELSE row
      row2 == IF alias # <<>> THEN [row1 EXCEPT !.alias = Join(alias)] ELSE row1
  IN IF name = NULL /\ alias = <<>> THEN Outcome(table, FALSE)
     ELSE IF player_id \notin DOMAIN table THEN Outcome(table, FALSE)
     ELSE IF name # NULL /\ \E i \in DOMAIN table \ {player_id} : table[i].name = name
       THEN Raised(table, "IntegrityError")
     ELSE Outcome([table EXCEPT ![player_id] = row2], TRUE)

(* The loop of import_from_json over the players (or the teams) of the     *)
(* file: add_player (add_team) for each, in order.                         *)
RECURSIVE ImportRows(_, _)
ImportRows(table, rows) ==
  IF rows = <<>> THEN table
  ELSE ImportRows(AddRow(table, Head(rows).name, Head(rows).alias).table, Tail(rows))

(* resolve_duplicate_ids for the ids typed, the correct one first: nothing *)
(* without the row of the correct id or without a row of the others; else *)
(* the rows of the others are deleted, unless the cleaning of a source     *)
(* file failed and the user declines.                                      *)
resolve_duplicate_ids(table, ids, proceed) ==
  LET correct_id == Head(ids)
      found_incorrect_ids == {ids[i] : i \in 2..Len(ids)} \cap DOMAIN table
  IN IF correct_id \notin DOMAIN table \/ found_incorrect_ids = {} \/ ~proceed
       THEN table
       ELSE DeleteRows(table, found_incorrect_ids)

(***************************************************************************)
(* The calls of the methods of the reference database.  ret is the last    *)
(* call: the method, its arguments and what it returned or raised.         *)
(***************************************************************************)
(* Inputs of the model: the names players and teams are created with, the  *)
(* alias lists they are created or updated with, the aliases added later,  *)
(* the raw names looked up, the thresholds of the fuzzy lookups (0.85, the *)
(* default, and 0.6), and the ids typed.                                   *)
RefPlayerNameInputs == {<<"a">>, <<"A">>, <<"b">>}
RefTeamNameInputs == {<<"a">>}
AliasListInputs == {<<>>, <<<<"a", "b">>>>, <<<<"a">>, <<"b">>>>}
TeamAliasListInputs == {<<>>, <<<<"a", "b">>>>}
NewAliasInputs == {<<" ", "b">>, <<"a", ",", "b">>, <<>>}
RawNameInputs == {<<"a">>, <<"A">>, <<"b">>, <<"B">>, <<"a", "b">>, <<"_">>}
ThresholdInputs == {(85 * ScoreUnit) \div 100, (60 * ScoreUnit) \div 100}
RefPlayerIds == 1..MaxRefPlayers
RefTeamIds == 1..MaxRefTeams

ImportPlayerRows == [name : RefPlayerNameInputs, alias : AliasListInputs]
ImportTeamRows == [name : RefTeamNameInputs, alias : TeamAliasListInputs]
ImportFiles ==
  [teams : UNION {[1..n -> ImportTeamRows] : n \in 0..MaxRefTeams},
   players : UNION {[1..n -> ImportPlayerRows] : n \in 0..MaxImport}]

NoCall == [op |-> "none", args |-> <<>>, result |-> 0, raised |-> "none"]

Call(op, args, result, raised) ==
  [op |-> op, args |-> args, result |-> result, raised |-> raised]

(* The length of the text of an alias column. *)
AliasLength(alias) == IF alias = NULL THEN 0 ELSE Len(alias)

AddTeam ==
  \E name \in RefTeamNameInputs, alias \in TeamAliasListInputs :
    LET o == add_team(ref_teams, name, alias)
    IN /\ DOMAIN o.table \subseteq RefTeamIds
       /\ ref_teams' = o.table
       /\ ret' = Call("add_team", <<name, alias>>, o.result, o.raised)
       /\ UNCHANGED ref_players
       /\ UNCHANGED stats_vars
       /\ UNCHANGED ingest_vars

AddPlayer ==
  \E name \in RefPlayerNameInputs, alias \in AliasListInputs :
    LET o == add_player(ref_players, name, alias)
    IN /\ DOMAIN o.table \subseteq RefPlayerIds
       /\ ref_players' = o.table
       /\ ret' = Call("add_player", <<name, alias>>, o.result, o.raised)
       /\ UNCHANGED ref_teams
       /\ UNCHANGED stats_vars
       /\ UNCHANGED ingest_vars

GetTeam ==
  \E name \in RawNameInputs, fuzzy_match \in BOOLEAN, match_threshold \in ThresholdInputs :
    /\ ret' = Call("get_team", <<name, fuzzy_match, match_threshold>>,
                   get_team(ref_teams, name, fuzzy_match, match_threshold), "none")
    /\ UNCHANGED <<ref_teams, ref_players>>
    /\ UNCHANGED stats_vars
    /\ UNCHANGED ingest_vars

GetPlayer ==
  \E name \in RawNameInputs :
    /\ ret' = Call("get_player", <<name>>, get_player(ref_players, name), "none")
    /\ UNCHANGED <<ref_teams, ref_players>>
    /\ UNCHANGED stats_vars
    /\ UNCHANGED ingest_vars

FindFuzzyPlayerMatches ==
  \E name \in RawNameInputs, match_threshold \in ThresholdInputs :
    /\ ret' = Call("find_fuzzy_player_matches", <<name, match_threshold>>,
                   find_fuzzy_player_matches(ref_players, name, match_threshold), "none")
    /\ UNCHANGED <<ref_teams, ref_players>>
    /\ UNCHANGED stats_vars
    /\ UNCHANGED ingest_vars

AddPlayerAlias ==
  \E player_id \in RefPlayerIds, new_alias \in NewAliasInputs :
    LET o == add_player_alias(ref_players, player_id, new_alias)
    IN /\ player_id \in DOMAIN ref_players
            => AliasLength(ref_players[player_id].alias) <= MaxAliasText
       /\ ref_players' = o.table
       /\ ret' = Call("add_player_alias", <<player_id, new_alias>>, o.result, o.raised)
       /\ UNCHANGED ref_teams
       /\ UNCHANGED stats_vars
       /\ UNCHANGED ingest_vars

UpdatePlayer ==
  \E player_id \in RefPlayerIds, name \in RefPlayerNameInputs \cup {NULL},
     alias \in AliasListInputs :
    LET o == update_player(ref_players, player_id, name, alias)
    IN /\ ref_players' = o.table
       /\ ret' = Call("update_player", <<player_id, name, alias>>, o.result, o.raised)
       /\ UNCHANGED ref_teams
       /\ UNCHANGED stats_vars
       /\ UNCHANGED ingest_vars

ImportFromJson ==
  \E data \in ImportFiles :
    LET teams1 == ImportRows(ref_teams, data.teams)
        players1 == ImportRows(ref_players, data.players)
    IN /\ DOMAIN teams1 \subseteq RefTeamIds
       /\ DOMAIN players1 \subseteq RefPlayerIds
       /\ ref_teams' = teams1
       /\ ref_players' = players1
       /\ ret' = Call("import_from_json", <<>>, TRUE, "none")
       /\ UNCHANGED stats_vars
       /\ UNCHANGED ingest_vars

ResolveDuplicateIds ==
  \E correct_id \in RefPlayerIds, incorrect_id \in RefPlayerIds, proceed \in BOOLEAN :
    /\ ref_players' = resolve_duplicate_ids(ref_players, <<correct_id, incorrect_id>>,
                                            proceed)
    /\ ret' = Call("resolve_duplicate_ids", <<correct_id, incorrect_id, proceed>>, 0,
                    "none")
    /\ UNCHANGED ref_teams
    /\ UNCHANGED stats_vars
    /\ UNCHANGED ingest_vars

(***************************************************************************)
(* Ingestion with a reference database: process_seasons_data and what it   *)
(* calls, in stats_reader/modules (match_processor.py, player_processor.py,*)
(* database_utils.py) and in stats_reader/stats_db_processor.py.           *)
(*                                                                         *)
(* Here the rows of teams are [name, reference_id, wins, losses], those of *)
(* players [name, reference_id] (player_hash is the hash of the name, and  *)
(* is the name here), those of matches [filename, match_date,              *)
(* imperial_team_id, rebel_team_id, winner, match_type] and those of       *)
(* player_stats [match_id, player_id, player_name, team_id, faction, role, *)
(* is_subbing]; names are texts, and 0 stands for NULL.  A row of          *)
(* ref_players may have a primary_team_id.  The stats database is one with *)
(* the role column of player_stats (modules/database_utils_update.py),     *)
(* which both entry points can write to.                                   *)
(***************************************************************************)
(* The default match_threshold of get_team and find_fuzzy_player_matches. *)
DefaultThreshold == (85 * ScoreUnit) \div 100

Unknown == <<"U", "n", "k", "n", "o", "w", "n">>

Imp_pickup_team ==
  <<"I", "m", "p", "_", "p", "i", "c", "k", "u", "p", "_", "t", "e", "a", "m">>

NR_pickup_team ==
  <<"N", "R", "_", "p", "i", "c", "k", "u", "p", "_", "t", "e", "a", "m">>

Imperial_ranked_team ==
  <<"I", "m", "p", "e", "r", "i", "a", "l", "_", "r", "a", "n", "k", "e", "d", "_",
    "t", "e", "a", "m">>

NR_ranked_team ==
  <<"N", "R", "_", "r", "a", "n", "k", "e", "d", "_", "t", "e", "a", "m">>

(* primary_team_id of a row of ref_players; 0 for NULL. *)
PrimaryTeamId(row) == IF "primary_team_id" \in DOMAIN row THEN row.primary_team_id ELSE 0

(* team_name of the dict get_player returns: the LEFT JOIN of ref_teams on *)
(* primary_team_id; NULL (None) without a team.                            *)
PrimaryTeamName(rteams, row) ==
  IF PrimaryTeamId(row) \in DOMAIN rteams THEN rteams[PrimaryTeamId(row)].name ELSE NULL

(* The first row of a table kept as a sequence that has a value in a       *)
(* column, 0 if none (fetchone() of a SELECT ... WHERE column = ?).        *)
RowWithReference(rows, ref_id) ==
  FetchOne({i \in DOMAIN rows : rows[i].reference_id = ref_id})

RowWithName(rows, name) == FetchOne({i \in DOMAIN rows : rows[i].name = name})

(* get_or_create_team with a reference database: the teams table after the *)
(* call, the id returned, and the reference team the name was bound to.    *)
get_or_create_team(ts, rteams, team_name) ==
  LET Bound(ref_id) ==
        LET canonical_name == IF ref_id # 0 THEN rteams[ref_id].name ELSE team_name
            by_reference == IF ref_id # 0 THEN RowWithReference(ts, ref_id) ELSE 0
            by_name == RowWithName(ts, canonical_name)
        IN IF by_reference # 0
             THEN [teams |-> ts, team_id |-> by_reference, ref_id |-> ref_id]
           ELSE IF by_name # 0
             THEN [teams |-> IF ref_id # 0
                               THEN [ts EXCEPT ![by_name].reference_id = ref_id]
                             ELSE ts,
                   team_id |-> by_name, ref_id |-> ref_id]
           ELSE [teams |-> Append(ts, [name |-> canonical_name, reference_id |-> ref_id,
                                       wins |-> 0, losses |-> 0]),
                 team_id |-> Len(ts) + 1, ref_id |-> ref_id]
  IN Bound(get_team(rteams, team_name, TRUE, DefaultThreshold))

(* The resolution cache: a function from raw names to (player_id,          *)
(* canonical_name); player_id 0 is the None of a skipped name.             *)
EmptyCache == [n \in {} |-> 0]

Cached(cache, player_name, player_id, canonical_name) ==
  [n \in DOMAIN cache \cup {player_name} |->
     IF n = player_name THEN [player_id |-> player_id, canonical_name |-> canonical_name]
     ELSE cache[n]]

(* A variant that takes every answer for C. *)
Choose_always_creates(rplayers, player_name, fuzzy_matches, choice) ==
  [ref_players |-> add_player(rplayers, player_name, <<>>).table,
   ref_id |-> add_player(rplayers, player_name, <<>>).result, skip |-> FALSE]

(* One answer to "Your choice:" of get_or_create_player, as the branch of  *)
(* the loop takes it: the reference table after it and the ref_id it       *)
(* resolves the name to; ref_id 0 if the loop goes on; skip for S.         *)
(* A choice is [kind, n]: kind "select" is a number n, "alias" is A and a  *)
(* number n, "create" is C, "alias_to" is AA and then the id n, "skip" is  *)
(* S.                                                                      *)
Choose(rplayers, player_name, fuzzy_matches, choice) ==
  LET unresolved == [ref_players |-> rplayers, ref_id |-> 0, skip |-> FALSE]
      resolved(table, id) == [ref_players |-> table, ref_id |-> id, skip |-> FALSE]
  IN CASE choice.kind = "select" ->
            IF choice.n \in DOMAIN fuzzy_matches
              THEN resolved(rplayers, fuzzy_matches[choice.n].id)
              ELSE unresolved
       [] choice.kind = "alias" ->
            IF choice.n \in DOMAIN fuzzy_matches
              THEN LET o == add_player_alias(rplayers, fuzzy_matches[choice.n].id,
                                             player_name)
                   IN IF o.result THEN resolved(o.table, fuzzy_matches[choice.n].id)
                      ELSE unresolved
              ELSE unresolved
       [] choice.kind = "create" ->
            LET o == add_player(rplayers, player_name, <<>>)
            IN resolved(o.table, o.result)
       [] choice.kind = "alias_to" ->
            IF choice.n \in DOMAIN rplayers
              THEN LET o == add_player_alias(rplayers, choice.n, player_name)
                       target == get_player(o.table, rplayers[choice.n].name)
                   IN IF o.result /\ target # 0 THEN resolved(o.table, target)
                      ELSE [unresolved EXCEPT !.ref_players = o.table]
              ELSE unresolved
       [] choice.kind = "skip" ->
            [ref_players |-> rplayers, ref_id |-> 0, skip |-> TRUE]

(* The "while not resolved" loop over the answers typed: its outcome, the   *)
(* answer that ended it and the number of answers it read.  With ref_id 0  *)
(* and no skip the loop has read every answer and waits for another.       *)
RECURSIVE Prompt(_, _, _, _)
Prompt(rplayers, player_name, fuzzy_matches, choices) ==
  LET r == Choose(rplayers, player_name, fuzzy_matches, Head(choices))
      rest == Prompt(r.ref_players, player_name, fuzzy_matches, Tail(choices))
  IN IF choices = <<>>
       THEN [ref_players |-> rplayers, ref_id |-> 0, skip |-> FALSE,
             choice |-> "none", used |-> 0]
     ELSE IF r.skip \/ r.ref_id # 0
       THEN [ref_players |-> r.ref_players, ref_id |-> r.ref_id, skip |-> r.skip,
             choice |-> Head(choices).kind, used |-> 1]
     ELSE [rest EXCEPT !.used = @ + 1]

(* Step 3 of get_or_create_player: the players table after the player of a *)
(* reference id is looked up by reference_id, then by the hash of the      *)
(* canonical name, and then created; and the id of the row.                *)
StatsPlayer(ps, ref_id, canonical_name) ==
  LET by_reference == RowWithReference(ps, ref_id)
      by_hash == RowWithName(ps, canonical_name)
  IN IF by_reference # 0
       THEN [players |-> [ps EXCEPT ![by_reference].name = canonical_name],
             player_id |-> by_reference]
     ELSE IF by_hash # 0
       THEN [players |-> [ps EXCEPT ![by_hash].reference_id = ref_id],
             player_id |-> by_hash]
     ELSE [players |-> Append(ps, [name |-> canonical_name, reference_id |-> ref_id]),
           player_id |-> Len(ps) + 1]

(* Steps 1 to 3 of get_or_create_player, for a name the cache does not     *)
(* have: the exact match, else the candidates and the prompt, then the     *)
(* players table.  db is [players, ref_players, cache]; the result is db   *)
(* after the call, the (player_id, canonical_name) returned, and what the  *)
(* call did: whether it returned from the cache, whether it consulted the  *)
(* reference database, whether it prompted, the answer that ended the      *)
(* prompt, the number of answers typed, the candidates shown, the          *)
(* reference id bound, and whether it returned (it has not if the prompt   *)
(* waits for an answer).                                                   *)
ResolvePlayer(db, player_name, choices) ==
  LET Found(rplayers, ref_id, did) ==
        LET Store(s, canonical_name) ==
              [players |-> s.players, ref_players |-> rplayers,
               cache |-> Cached(db.cache, player_name, s.player_id, canonical_name),
               player_id |-> s.player_id, canonical_name |-> canonical_name, did |-> did]
        IN Store(StatsPlayer(db.players, ref_id, rplayers[ref_id].name),
                 rplayers[ref_id].name)
      After(fuzzy_matches, p) ==
        LET did == [cached |-> FALSE, consulted |-> TRUE, prompted |-> TRUE,
                    choice |-> p.choice,
                    candidates |-> {fuzzy_matches[i].id : i \in DOMAIN fuzzy_matches},
                    ref_id |-> p.ref_id, typed |-> p.used,
                    returned |-> p.skip \/ p.ref_id # 0]
            skipped == [players |-> db.players, ref_players |-> p.ref_players,
                        cache |-> Cached(db.cache, player_name, 0, player_name),
                        player_id |-> 0, canonical_name |-> player_name, did |-> did]
        IN IF p.skip THEN skipped
           ELSE IF p.ref_id = 0 THEN [skipped EXCEPT !.cache = db.cache]
           ELSE Found(p.ref_players, p.ref_id, did)
      Asked(fuzzy_matches) ==
        After(fuzzy_matches, Prompt(db.ref_players, player_name, fuzzy_matches, choices))
      Looked(exact) ==
        IF exact # 0
          THEN Found(db.ref_players, exact,
                     [cached |-> FALSE, consulted |-> TRUE, prompted |-> FALSE,
                      choice |-> "none", candidates |-> {}, ref_id |-> exact, typed |-> 0,
                      returned |-> TRUE])
        ELSE Asked(find_fuzzy_player_matches(db.ref_players, player_name,
                                             DefaultThreshold))
  IN Looked(get_player(db.ref_players, player_name))

(* A variant that never reads the cache. *)
get_or_create_player_uncached(db, player_name, choices) ==
  ResolvePlayer(db, player_name, choices)

(* get_or_create_player with a reference database and a cache: a name the  *)
(* cache has returns what the cache holds.                                 *)
get_or_create_player(db, player_name, choices) ==
  IF player_name \in DOMAIN db.cache
    THEN [players |-> db.players, ref_players |-> db.ref_players, cache |-> db.cache,
          player_id |-> db.cache[player_name].player_id,
          canonical_name |-> db.cache[player_name].canonical_name,
          did |-> [cached |-> TRUE, consulted |-> FALSE, prompted |-> FALSE,
                   choice |-> "none", candidates |-> {}, ref_id |-> 0, typed |-> 0,
                   returned |-> TRUE]]
  ELSE ResolvePlayer(db, player_name, choices)

(* The entry points: process_seasons_data of modules/match_processor.py and *)
(* of stats_db_processor.py, each with the process_match_data,             *)
(* process_player_stats and player_resolution_cache of its own module.     *)
EntryPoints == {"match_processor", "stats_db_processor"}

(* "Confirm? (Y/n)": only the answer n, in either case, flips the          *)
(* suggestion.                                                             *)
Rejects(user_response) == LowerText(Strip(user_response)) = <<"n">>

(* process_player_stats for one player.  db is [teams, players,            *)
(* player_stats, ref_teams, ref_players, cache]; the result is db after    *)
(* the call and what the call did.  The player has no primary role and the *)
(* role prompt is answered with Enter.                                     *)
process_player_stats(entry, db, match_id, team_id, faction, player_name, match_type, answers) ==
  LET no_team == entry = "match_processor" /\ match_type \in {"pickup", "ranked"}
      Stat(r, primary_team_name) ==
        LET current_team_name == db.teams[team_id].name
            known == ~no_team /\ primary_team_name # Unknown
            suggested_subbing ==
              IF known /\ primary_team_name # current_team_name THEN 1 ELSE 0
            prompt_user == known /\ (entry = "match_processor" => match_type = "team")
            final_is_subbing ==
              IF prompt_user /\ Rejects(answers.user_response) THEN 1 - suggested_subbing
              ELSE suggested_subbing
            row == [match_id |-> match_id, player_id |-> r.player_id,
                    player_name |-> r.canonical_name,
                    team_id |-> IF no_team THEN 0 ELSE team_id,
                    faction |-> faction, role |-> NoRole, is_subbing |-> final_is_subbing]
            db1 == [db EXCEPT !.players = r.players, !.ref_players = r.ref_players,
                              !.cache = r.cache]
            written == r.player_id # 0
        IN [db |-> IF written THEN [db1 EXCEPT !.player_stats = Append(@, row)] ELSE db1,
            did |-> [player_name |-> player_name, faction |-> faction,
                     cached |-> r.did.cached, consulted |-> r.did.consulted,
                     prompted |-> r.did.prompted, choice |-> r.did.choice,
                     candidates |-> r.did.candidates, ref_id |-> r.did.ref_id,
                     typed |-> r.did.typed, returned |-> r.did.returned,
                     player_id |-> r.player_id, written |-> written,
                     suggested_subbing |-> IF written THEN suggested_subbing ELSE 0,
                     prompt_user |-> written /\ prompt_user]]
      Team(r, ref_player) ==
        Stat(r, IF ref_player # 0
                  THEN PrimaryTeamName(db.ref_teams, r.ref_players[ref_player])
                ELSE Unknown)
      Resolved(r) ==
        Team(r, IF r.player_id # 0 THEN get_player(r.ref_players, r.canonical_name) ELSE 0)
  IN Resolved(get_or_create_player(db, player_name, answers.choices))

(* The loop of process_match_data over the players of a faction. *)
RECURSIVE ProcessPlayers(_, _, _, _, _, _, _, _)
ProcessPlayers(entry, acc, match_id, team_id, faction, roster, match_type, answers) ==
  LET Step(r) ==
        ProcessPlayers(entry, [db |-> r.db, log |-> Append(acc.log, r.did)], match_id,
                       team_id, faction, Tail(roster), match_type, Tail(answers))
  IN IF roster = <<>> THEN acc
     ELSE Step(process_player_stats(entry, acc.db, match_id, team_id, faction,
                                    Head(roster), match_type, Head(answers)))

(* The texts process_match_data looks for in the upper-cased match_result. *)
KeywordText ==
  [k \in {"IMPERIAL", "EMPIRE", "REBEL", "NEW REPUBLIC", "REPUBLIC"} |->
     CASE k = "IMPERIAL" -> <<"I", "M", "P", "E", "R", "I", "A", "L">>
       [] k = "EMPIRE" -> <<"E", "M", "P", "I", "R", "E">>
       [] k = "REBEL" -> <<"R", "E", "B", "E", "L">>
       [] k = "NEW REPUBLIC" ->
            <<"N", "E", "W", " ", "R", "E", "P", "U", "B", "L", "I", "C">>
       [] k = "REPUBLIC" -> <<"R", "E", "P", "U", "B", "L", "I", "C">>]

(* The operator in of Python on strings: sub occurs in t. *)
In(sub, t) == \E i \in 0..(Len(t) - Len(sub)) : SubSeq(t, i + 1, i + Len(sub)) = sub

(* The keywords that are in match_result.upper(). *)
KeywordsIn(match_result) ==
  {k \in DOMAIN KeywordText : In(KeywordText[k], UpperText(match_result))}

(* The team names of a match: typed for a team match (and for every match  *)
(* in stats_db_processor.py), assigned for pickup and ranked matches.      *)
TeamNames(entry, match_type, typed) ==
  IF entry = "stats_db_processor" \/ match_type = "team"
    THEN [imperial |-> Strip(typed.imperial), rebel |-> Strip(typed.rebel)]
  ELSE IF match_type = "pickup"
    THEN [imperial |-> Imp_pickup_team, rebel |-> NR_pickup_team]
  ELSE [imperial |-> Imperial_ranked_team, rebel |-> NR_ranked_team]

(* process_match_data with a reference database, up to the loops over the  *)
(* players: the teams of the match, their counters and the row of the      *)
(* match.  db is [teams, players, matches, player_stats, ref_teams,        *)
(* ref_players, cache]; data is the match of the file.                     *)
InsertMatch(entry, db, data, typed) ==
  LET Insert(winner, names, t1, t2) ==
        [db |-> [db EXCEPT
                   !.teams = WinLossAfter(t2.teams, t1.team_id, t2.team_id, winner),
                   !.matches = Append(@, [filename |-> data.filename,
                                          match_date |-> data.match_date,
                                          imperial_team_id |-> t1.team_id,
                                          rebel_team_id |-> t2.team_id,
                                          winner |-> winner,
                                          match_type |-> data.match_type])],
         match_id |-> Len(db.matches) + 1,
         teams |-> <<[typed |-> names.imperial, team_id |-> t1.team_id,
                      ref_id |-> t1.ref_id],
                     [typed |-> names.rebel, team_id |-> t2.team_id,
                      ref_id |-> t2.ref_id]>>]
      Rebel(winner, names, t1) ==
        Insert(winner, names, t1, get_or_create_team(t1.teams, db.ref_teams, names.rebel))
      Imperial(winner, names) ==
        Rebel(winner, names, get_or_create_team(db.teams, db.ref_teams, names.imperial))
  IN Imperial(NormalizeWinner(KeywordsIn(data.match_result)),
              TeamNames(entry, data.match_type, typed))

(* The reference database ingestion runs against: the team aab, its player *)
(* a, and the player b, of no team, with the alias ccc.                    *)
RefTeamsAtStart == add_team(NoTable, <<"a", "a", "b">>, <<>>).table

RefPlayersAtStart ==
  <<[name |-> <<"a">>, alias |-> NULL, primary_team_id |-> 1],
    [name |-> <<"b">>, alias |-> <<"c", "c", "c">>, primary_team_id |-> 0]>>

(* Inputs of ingestion: the raw names of the players of a file (the name   *)
(* of a player, a name that differs from an alias by its case, and one     *)
(* that differs from it by a leading space), the rosters, the team names   *)
(* typed (the name of the reference team, one close to it, and another),   *)
(* the matches of a file, and the answers typed.                           *)
IngestPlayerNames == {<<"a">>, <<"C", "c", "c">>, <<" ", "c", "c", "c">>}
IngestRosters == {<<>>} \cup {<<n>> : n \in IngestPlayerNames}
RebelRosters == {<<>>, <<<<"a">>>>}
OtherTeamName == <<"b">>
TypedTeamNames == {<<"a", "a", "b">>, <<"a", "a", "b", "b">>, OtherTeamName}
Filenames == 1..MaxFile
(* The words of the match_result texts, and a text of words: the words     *)
(* with a space between them.                                              *)
ResultWords ==
  {<<"I", "M", "P", "E", "R", "I", "A", "L">>,
   <<"E", "M", "P", "I", "R", "E">>,
   <<"R", "E", "B", "E", "L">>,
   <<"N", "E", "W">>,
   <<"R", "E", "P", "U", "B", "L", "I", "C">>,
   <<"V", "I", "C", "T", "O", "R", "Y">>,
   <<"D", "E", "F", "E", "A", "T">>,
   <<"O", "V", "E", "R">>,
   <<"R", "e", "b", "e", "l">>,
   <<"v", "i", "c", "t", "o", "r", "y">>}

RECURSIVE JoinWords(_)
JoinWords(ws) ==
  IF ws = <<>> THEN <<>>
  ELSE IF Len(ws) = 1 THEN ws[1]
  ELSE ws[1] \o <<" ">> \o JoinWords(Tail(ws))

MatchResultTexts ==
  {JoinWords(ws) : ws \in UNION {[1..n -> ResultWords] : n \in 0..MaxWords}}

IngestResultTexts == {<<"I", "M", "P", "E", "R", "I", "A", "L", " ", "V", "I", "C", "T", "O", "R", "Y">>}
MatchDataInputs ==
  [filename : Filenames, match_result : IngestResultTexts, match_date : {1},
   match_type : MatchTypeInputs, imperial_players : IngestRosters,
   rebel_players : RebelRosters]

LastChoices == {[kind |-> "create", n |-> 0], [kind |-> "skip", n |-> 0]}
FirstChoices ==
  LastChoices \cup {[kind |-> "select", n |-> 1], [kind |-> "alias", n |-> 1],
                    [kind |-> "alias_to", n |-> 1]}
ChoiceInputs ==
  {<<>>} \cup {<<c>> : c \in FirstChoices}
         \cup {<<c, d>> : c \in FirstChoices \ LastChoices, d \in LastChoices}
ResponseInputs == {<<>>, <<"n">>}
AnswerInputs == [choices : ChoiceInputs, user_response : ResponseInputs]

(* The answers typed for a roster: one for each of its players. *)
AnswersFor(roster) == IF roster = <<>> THEN {<<>>} ELSE {<<a>> : a \in AnswerInputs}

NoRun ==
  [entry |-> "none", runs |-> 0, size |-> 0, left |-> 0, done |-> <<>>,
   first |-> <<>>, before |-> <<>>, returned |-> "none", raised |-> "none"]

NoLog == [match_id |-> 0, players |-> <<>>, teams |-> <<>>]

NoCaches == [entry \in EntryPoints |-> EmptyCache]

(* No call of process_season_folder yet.  Of a call: the files of the      *)
(* folder, the image paths found, the batch size, the index i of the loop, *)
(* the results so far, the batches passed to                               *)
(* extract_scores_from_multiple_images, the results passed to              *)
(* save_season_results, the number of the calls of time.sleep, what was    *)
(* called in order, and what the call returned.                            *)
NoSeason ==
  [state |-> "none", folder |-> <<>>, image_paths |-> <<>>, batch_size |-> 0, i |-> 0,
   season_results |-> <<>>, extracted |-> <<>>, saved |-> <<>>, sleeps |-> 0,
   calls |-> <<>>, returned |-> <<>>]

(* A variant that keeps the cache of the run before. *)
ProcessSeasonsData_keeps_cache ==
  \E entry \in EntryPoints, n \in 1..MaxFile :
    /\ ingestion.left = 0
    /\ ingestion.runs < MaxRuns
    /\ Len(matches) + n <= MaxIngested
    /\ ingestion' = [entry |-> entry, runs |-> ingestion.runs + 1, size |-> n,
               left |-> n, done |-> <<>>, first |-> ingestion.done,
               before |-> [teams |-> teams, matches |-> matches,
                           player_stats |-> player_stats],
               returned |-> "none", raised |-> "none"]
    /\ log' = NoLog
    /\ UNCHANGED <<teams, players, matches, player_stats, out, player_resolution_cache,
                   season>>
    /\ UNCHANGED registry_vars

(* process_seasons_data: the cache of the module is reset and the file is  *)
(* read; size is the number of the matches of the file and left the number *)
(* of those still to process.  first is what the run before read and was   *)
(* typed, and before the stats database as this run finds it.  returned is *)
(* the value the call returns once its loop is over, and raised the        *)
(* exception that ended the loop.                                          *)
ProcessSeasonsData ==
  \E entry \in EntryPoints, n \in 1..MaxFile :
    /\ ingestion.left = 0
    /\ ingestion.runs < MaxRuns
    /\ Len(matches) + n <= MaxIngested
    /\ player_resolution_cache' = [player_resolution_cache EXCEPT ![entry] = EmptyCache]
    /\ ingestion' = [entry |-> entry, runs |-> ingestion.runs + 1, size |-> n,
               left |-> n, done |-> <<>>, first |-> ingestion.done,
               before |-> [teams |-> teams, matches |-> matches,
                           player_stats |-> player_stats],
               returned |-> "none", raised |-> "none"]
    /\ log' = NoLog
    /\ UNCHANGED <<teams, players, matches, player_stats, out, season>>
    /\ UNCHANGED registry_vars

(* Whether the answers are those typed: every prompt got the answers it    *)
(* read and ended, and nothing was typed where nothing was asked.          *)
Typed(did, answers) ==
  \A i \in DOMAIN did :
    /\ did[i].returned
    /\ did[i].typed = Len(answers[i].choices)
    /\ ~did[i].prompt_user => answers[i].user_response = <<>>

(* process_match_data with a reference database, for the next match of    *)
(* the file of the run: the teams and the row of the match, then           *)
(* process_player_stats for the imperial players and for the rebel         *)
(* players.  (The values m, r1 and r2 are bound by \E over a singleton, so  *)
(* that each is computed once.)                                            *)
process_match_data_ref(data, imperial_typed) ==
  LET typed == [imperial |-> imperial_typed, rebel |-> OtherTeamName]
      db == [teams |-> teams, players |-> players, matches |-> matches,
             player_stats |-> player_stats, ref_teams |-> ref_teams,
             ref_players |-> ref_players,
             cache |-> player_resolution_cache[ingestion.entry]]
  IN /\ data.filename = Len(ingestion.done) + 1
     /\ TeamNames(ingestion.entry, data.match_type, typed).imperial # imperial_typed
          => imperial_typed = OtherTeamName
     /\ \E m \in {InsertMatch(ingestion.entry, db, data, typed)} :
        \E imperial \in AnswersFor(data.imperial_players) :
        \E r1 \in {ProcessPlayers(ingestion.entry, [db |-> m.db, log |-> <<>>],
                                  m.match_id, m.teams[1].team_id, "IMPERIAL",
                                  data.imperial_players, data.match_type,
                                  imperial)} :
          /\ Typed(r1.log, imperial)
          /\ \E rebel \in AnswersFor(data.rebel_players) :
             \E r2 \in {ProcessPlayers(ingestion.entry, [db |-> r1.db, log |-> <<>>],
                                       m.match_id, m.teams[2].team_id, "REBEL",
                                       data.rebel_players, data.match_type,
                                       rebel)} :
               /\ Typed(r2.log, rebel)
               /\ teams' = r2.db.teams
               /\ players' = r2.db.players
               /\ matches' = r2.db.matches
               /\ player_stats' = r2.db.player_stats
               /\ ref_players' = r2.db.ref_players
               /\ player_resolution_cache' =
                    [player_resolution_cache EXCEPT ![ingestion.entry] = r2.db.cache]
               /\ ingestion' =
                    [ingestion EXCEPT
                       !.left = @ - 1,
                       !.done = Append(@, [data |-> data, typed |-> typed,
                                           imperial |-> imperial,
                                           rebel |-> rebel]),
                       !.returned = IF ingestion.left = 1 THEN "True" ELSE "none"]
               /\ log' = [match_id |-> m.match_id, teams |-> m.teams,
                           players |-> r1.log \o r2.log]
               /\ out' = NoOutput
               /\ UNCHANGED <<ref_teams, ret, season>>

ProcessMatchDataRef ==
  /\ ingestion.left > 0
  /\ \E data \in MatchDataInputs, imperial_typed \in TypedTeamNames :
       process_match_data_ref(data, imperial_typed)

(* process_match_data for the first match of a database, a pickup match    *)
(* without players, whose match_result is any text of words.               *)
ProcessMatchResult ==
  /\ ingestion.left > 0
  /\ matches = <<>>
  /\ \E match_result \in MatchResultTexts :
       process_match_data_ref([filename |-> 1, match_result |-> match_result,
                               match_date |-> 1, match_type |-> "pickup",
                               imperial_players |-> <<>>, rebel_players |-> <<>>],
                              OtherTeamName)

IngestInit ==
  /\ teams = <<>>
  /\ players = <<>>
  /\ matches = <<>>
  /\ player_stats = <<>>
  /\ out = NoOutput
  /\ ref_teams = RefTeamsAtStart
  /\ ref_players = RefPlayersAtStart
  /\ ret = NoCall
  /\ player_resolution_cache = NoCaches
  /\ ingestion = NoRun
  /\ log = NoLog
  /\ season = NoSeason

IngestNext ==
  \/ ProcessSeasonsData
  \/ ProcessMatchDataRef

IngestSpec == IngestInit /\ [][IngestNext]_vars

(* The specification of the outcome normalization: runs whose first match  *)
(* has any text of words as its match_result.                              *)
OutcomeNext ==
  \/ ProcessSeasonsData
  \/ ProcessMatchResult

OutcomeSpec == IngestInit /\ [][OutcomeNext]_vars

(* The match records of a file as the JSON holds them: a key may be absent *)
(* (Absent) or hold null (NULL).  match_result is a text, absent or null;  *)
(* teams is a dict with the rosters of its sides, absent or null.          *)
Absent == <<"ABSENT">>

DegradedResultTexts ==
  {<<"I", "M", "P", "E", "R", "I", "A", "L", " ", "V", "I", "C", "T", "O", "R", "Y">>,
   <<"D", "E", "F", "E", "A", "T">>}

TeamsFields ==
  {[kind |-> "absent", imperial |-> <<>>], [kind |-> "null", imperial |-> <<>>]}
    \cup [kind : {"dict"}, imperial : {<<>>, <<<<"a">>>>, <<<<"C", "c", "c">>>>}]

MatchRecords ==
  [match_result : DegradedResultTexts \cup {Absent, NULL}, teams : TeamsFields]

(* dict.get(key, default): the default where the key is absent; a null is  *)
(* a value like another.                                                   *)
Get(field, default) == IF field = Absent THEN default ELSE field

(* The end of the loop of process_seasons_data by an exception: "except    *)
(* Exception" catches it, the connections are closed without a commit and  *)
(* the call returns False.                                                 *)
ExceptException(exception) ==
  /\ ingestion' = [ingestion EXCEPT !.left = 0, !.returned = "False",
                                    !.raised = exception]
  /\ log' = NoLog
  /\ UNCHANGED <<teams, players, matches, player_stats, out,
                 player_resolution_cache, season>>
  /\ UNCHANGED registry_vars

(* One turn of the loop of process_seasons_data, for a pickup match whose  *)
(* record may be degraded.  get_or_create_season is the first statement    *)
(* to reach the database: where the storage fails (fails) it raises        *)
(* sqlite3.OperationalError.  match_result.upper() on a null and           *)
(* teams_data.keys() on a null raise AttributeError, before any row is     *)
(* written.                                                                *)
ProcessMatchRecord ==
  /\ ingestion.left > 0
  /\ \E record \in MatchRecords, fails \in BOOLEAN :
     \E match_result \in {Get(record.match_result, <<"U", "N", "K", "N", "O", "W", "N">>)} :
       IF fails THEN ExceptException("OperationalError")
       ELSE IF match_result = NULL \/ record.teams.kind = "null"
         THEN ExceptException("AttributeError")
       ELSE process_match_data_ref(
              [filename |-> Len(ingestion.done) + 1, match_result |-> match_result,
               match_date |-> 1, match_type |-> "pickup",
               imperial_players |-> record.teams.imperial,
               rebel_players |-> <<>>],
              OtherTeamName)

(* The specification of runs over files with degraded records. *)
DegradedNext ==
  \/ ProcessSeasonsData
  \/ ProcessMatchRecord

DegradedSpec == IngestInit /\ [][DegradedNext]_vars

(* A rename in the reference database between two runs: update_player     *)
(* with a name no player of the registry has yet.                          *)
RenameInputs == {<<"z">>}

RenamePlayer ==
  /\ ingestion.left = 0
  /\ \E player_id \in DOMAIN ref_players, name \in RenameInputs :
     \E o \in {update_player(ref_players, player_id, name, <<>>)} :
       /\ ref_players' = o.table
       /\ ret' = Call("update_player", <<player_id, name, <<>>>>, o.result, o.raised)
  /\ UNCHANGED ref_teams
  /\ UNCHANGED stats_vars
  /\ UNCHANGED ingest_vars

(* process_match_data for a pickup match with one imperial player: a       *)
(* player of the registry under the name it had or has, or a name close    *)
(* to an alias.                                                            *)
LinkRosters == {<<<<"a">>>>, <<<<"z">>>>, <<<<"C", "c", "c">>>>}

ProcessPickupMatch ==
  /\ ingestion.left > 0
  /\ \E imperial_players \in LinkRosters :
       process_match_data_ref(
         [filename |-> Len(ingestion.done) + 1,
          match_result |-> <<"I", "M", "P", "E", "R", "I", "A", "L">>,
          match_date |-> 1, match_type |-> "pickup",
          imperial_players |-> imperial_players, rebel_players |-> <<>>],
         OtherTeamName)

(* The specification of ingestion runs with renames in the registry        *)
(* between them.                                                           *)
LinkNext ==
  \/ ProcessSeasonsData
  \/ ProcessPickupMatch
  \/ RenamePlayer

LinkSpec == IngestInit /\ [][LinkNext]_vars

Init ==
  /\ teams = <<>>
  /\ players = <<>>
  /\ matches = <<>>
  /\ player_stats = <<>>
  /\ out = NoOutput
  /\ ref_teams = NoTable
  /\ ref_players = NoTable
  /\ ret = NoCall
  /\ player_resolution_cache = NoCaches
  /\ ingestion = NoRun
  /\ log = NoLog
  /\ season = NoSeason

Next ==
  \/ ProcessMatchData
  \/ GenerateEloLadder
  \/ GenerateCombinedLadder
  \/ GeneratePlayerEloLadder
  \/ GenerateRoleSpecificElo

Spec == Init /\ [][Next]_vars

(* The reference database under the calls of its methods. *)
RegistryNext ==
  \/ AddTeam
  \/ AddPlayer
  \/ GetTeam
  \/ GetPlayer
  \/ FindFuzzyPlayerMatches
  \/ AddPlayerAlias
  \/ UpdatePlayer
  \/ ImportFromJson
  \/ ResolveDuplicateIds

RegistrySpec == Init /\ [][RegistryNext]_vars

(* The specification of the rating of factions of more than one player:   *)
(* pickup matches of two players against one, and the player generators.   *)
FactionNext ==
  \/ ProcessFactionMatch
  \/ GeneratePlayerEloLadder
  \/ GenerateRoleSpecificElo

FactionSpec == Init /\ [][FactionNext]_vars

(***************************************************************************)
(* The score extractor (score_extractor/season_processor.py).              *)
(*                                                                         *)
(* extract_date_from_filename.  A pattern of re is a sequence of elements: *)
(* a character, "\\d" (a digit), "[.-]" (a dot or a dash) or "\\s+" (one   *)
(* or more spaces).                                                        *)
(***************************************************************************)
Digits == {"0", "1", "2", "3", "4", "5", "6", "7", "8", "9"}

(* Whether the element of a pattern accepts the character. *)
Accepts(element, c, ignorecase) ==
  IF element = "\\d" THEN c \in Digits
  ELSE IF element = "[.-]" THEN c \in {".", "-"}
  ELSE IF ignorecase THEN Lower(c) = Lower(element)
  ELSE c = element

(* The index after the match of the elements k.. of the pattern that       *)
(* starts at index i of the text, 0 where there is none.  (No element      *)
(* after a "\\s+" accepts a space, so the longest run of spaces is the     *)
(* only one to try.)                                                       *)
RECURSIVE MatchEnd(_, _, _, _, _)
MatchEnd(pattern, k, text, i, ignorecase) ==
  IF k > Len(pattern) THEN i
  ELSE IF i > Len(text) THEN 0
  ELSE IF pattern[k] = "\\s+"
    THEN IF text[i] # " " THEN 0
         ELSE IF i < Len(text) /\ text[i + 1] = " "
           THEN MatchEnd(pattern, k, text, i + 1, ignorecase)
           ELSE MatchEnd(pattern, k + 1, text, i + 1, ignorecase)
  ELSE IF Accepts(pattern[k], text[i], ignorecase)
    THEN MatchEnd(pattern, k + 1, text, i + 1, ignorecase)
  ELSE 0

(* re.search: the text of the leftmost match, NULL where there is none. *)
Search(pattern, text, ignorecase) ==
  LET starts == {i \in 1..Len(text) : MatchEnd(pattern, 1, text, i, ignorecase) # 0}
  IN IF starts = {} THEN NULL
     ELSE LET i == CHOOSE j \in starts : \A h \in starts : j <= h
          IN SubSeq(text, i, MatchEnd(pattern, 1, text, i, ignorecase) - 1)

(* match.groups(): in each of the patterns below a group encloses a whole  *)
(* run of "\\d" elements and nothing else is a digit, so the groups are    *)
(* the runs of digits of the match, in order.                              *)
RECURSIVE Groups(_)
Groups(match) ==
  IF match = <<>> THEN <<>>
  ELSE IF match[1] \notin Digits THEN Groups(Tail(match))
  ELSE LET rest == Groups(Tail(match))
       IN IF Len(match) > 1 /\ match[2] \in Digits
            THEN <<<<match[1]>> \o rest[1]>> \o Tail(rest)
            ELSE <<<<match[1]>>>> \o rest

YearFirstPattern ==
  <<"2", "0", "\\d", "\\d", "[.-]", "\\d", "\\d", "[.-]", "\\d", "\\d">>

DayFirstPattern ==
  <<"\\d", "\\d", "[.-]", "\\d", "\\d", "[.-]", "2", "0", "\\d", "\\d">>

TimePattern ==
  <<"\\d", "\\d", ".", "\\d", "\\d", ".", "\\d", "\\d">>

ScreenshotPattern ==
  <<"S", "t", "a", "r", " ", "W", "a", "r", "s", "\\s+", "S", "q", "u",
    "a", "d", "r", "o", "n", "s", "\\s+", "S", "c", "r", "e", "e", "n",
    "s", "h", "o", "t", "\\s+", "\\d", "\\d", "\\d", "\\d", ".", "\\d",
    "\\d", ".", "\\d", "\\d", "\\s+", "-", "\\s+", "\\d", "\\d", ".",
    "\\d", "\\d", ".", "\\d", "\\d">>

(* f"{year}-{month}-{day} {hour}:{minute}:{second}" *)
FormatDate(year, month, day, hour, minute, second) ==
  year \o <<"-">> \o month \o <<"-">> \o day \o <<" ">>
       \o hour \o <<":">> \o minute \o <<":">> \o second

(* The date with the time of the first match of the time pattern in the    *)
(* filename, with noon where there is none.                                *)
WithTimeOf(filename, year, month, day) ==
  LET time_pattern == Search(TimePattern, filename, FALSE)
  IN IF time_pattern # NULL
       THEN FormatDate(year, month, day, Groups(time_pattern)[1],
                       Groups(time_pattern)[2], Groups(time_pattern)[3])
       ELSE FormatDate(year, month, day, <<"1", "2">>, <<"0", "0">>, <<"0", "0">>)

extract_date_from_filename(filename) ==
  LET year_first == Search(YearFirstPattern, filename, FALSE)
      day_first == Search(DayFirstPattern, filename, FALSE)
      sw_pattern == Search(ScreenshotPattern, filename, TRUE)
  IN IF year_first # NULL
       THEN WithTimeOf(filename, Groups(year_first)[1], Groups(year_first)[2],
                       Groups(year_first)[3])
     ELSE IF day_first # NULL
       THEN WithTimeOf(filename, Groups(day_first)[3], Groups(day_first)[2],
                       Groups(day_first)[1])
     ELSE IF sw_pattern # NULL
       THEN FormatDate(Groups(sw_pattern)[1], Groups(sw_pattern)[2],
                       Groups(sw_pattern)[3], Groups(sw_pattern)[4],
                       Groups(sw_pattern)[5], Groups(sw_pattern)[6])
     ELSE NULL

(* The filenames: what stands before the date, the date, what stands       *)
(* between the date and the time, the time, and what stands after.         *)
FilenameHeads ==
  {<<>>,
   <<"x", "_">>,
   <<"S", "t", "a", "r", " ", "W", "a", "r", "s", " ", " ", "S", "q", "u",
     "a", "d", "r", "o", "n", "s", " ", "s", "c", "r", "e", "e", "n", "s",
     "h", "o", "t", " ">>}

FilenameDates ==
  {<<>>,
   <<"2", "0", "2", "3", ".", "1", "0", ".", "2", "5">>,
   <<"2", "0", "2", "3", "-", "1", "0", "-", "2", "5">>,
   <<"2", "0", "2", "3", ".", "1", "0", "-", "2", "5">>,
   <<"2", "0", "2", "3", "1", "0", "2", "5">>,
   <<"2", "5", ".", "1", "0", ".", "2", "0", "2", "3">>,
   <<"2", "5", "-", "1", "0", "-", "2", "0", "2", "3">>,
   <<"1", "9", "9", "9", ".", "1", "0", ".", "2", "5">>}

FilenameGaps ==
  {<<"_">>,
   <<" ", "-", " ">>}

FilenameTimes ==
  {<<>>,
   <<"1", "5", ".", "3", "0", ".", "0", "0">>,
   <<"1", "5", "3", "0", "0", "0">>}

FilenameTails ==
  {<<".", "7", "6", ".", "p", "n", "g">>,
   <<".", "p", "n", "g">>}

FilenameInputs ==
  {head \o date \o gap \o time \o tail :
     head \in FilenameHeads, date \in FilenameDates, gap \in FilenameGaps,
     time \in FilenameTimes, tail \in FilenameTails}

(* A call of extract_date_from_filename. *)
ExtractDateFromFilename ==
  /\ \E filename \in FilenameInputs :
       ret' = Call("extract_date_from_filename", <<filename>>,
                   extract_date_from_filename(filename), "none")
  /\ UNCHANGED <<teams, players, matches, player_stats, out, ref_teams, ref_players>>
  /\ UNCHANGED ingest_vars

(* The specification of the calls of extract_date_from_filename. *)
ExtractNext == ExtractDateFromFilename

ExtractSpec == Init /\ [][ExtractNext]_vars

(* process_season_folder.  A folder is the listing of its files, each the  *)
(* extension of a file; the index of a file in the listing stands for its  *)
(* filename, so that no two files of a folder have the same filename.      *)
Extensions == {".png", ".JPG", ".json"}
Folders == UNION {[1..n -> Extensions] : n \in 0..MaxFolder}
(* The batch sizes: 0 stands for None. *)
BatchSizes == 0..MaxBatchSize
(* What extract_scores_from_image does for an image: it returns the scores *)
(* or raises.                                                              *)
Outcomes == {"scores", "raises"}

(* filename.lower() on the extensions of the model. *)
LowerExtension(ext) == IF ext = ".JPG" THEN ".jpg" ELSE ext

supported_extensions == {".jpg", ".jpeg", ".png"}

(* The image paths of a folder, in the order of the listing. *)
ImagePaths(folder) ==
  LET Supported(file) == LowerExtension(folder[file]) \in supported_extensions
  IN SelectSeq([file \in 1..Len(folder) |-> file], Supported)

(* dict.update *)
DictUpdate(d, other) ==
  [key \in DOMAIN d \cup DOMAIN other |->
     IF key \in DOMAIN other THEN other[key] ELSE d[key]]

(* extract_scores_from_multiple_images: an entry for each image path,      *)
(* keyed by its filename: the scores, or the error where the extraction    *)
(* raised.                                                                 *)
extract_scores_from_multiple_images(image_paths, outcomes) ==
  [filename \in {image_paths[k] : k \in DOMAIN image_paths} |->
     LET k == CHOOSE h \in DOMAIN image_paths : image_paths[h] = filename
     IN IF outcomes[k] = "raises" THEN "error" ELSE "scores"]

(* A variant that waits after every batch. *)
WaitsAfterBatch_every(i, batch_size, image_paths) == TRUE

(* "if i + batch_size < len(image_paths)": whether the loop waits after   *)
(* the batch that starts at i.                                             *)
WaitsAfterBatch(i, batch_size, image_paths) == i + batch_size < Len(image_paths)

(* image_paths[i:i+batch_size] *)
Slice(image_paths, i, j) ==
  SubSeq(image_paths, i + 1, IF j < Len(image_paths) THEN j ELSE Len(image_paths))

(* process_season_folder up to its loop: without an image it returns {};   *)
(* with a batch size it enters the loop; without one it extracts all the   *)
(* images at once, saves and returns.                                      *)
ProcessSeasonFolder ==
  /\ season.state # "running"
  /\ \E folder \in Folders, batch_size \in BatchSizes :
     \E image_paths \in {ImagePaths(folder)} :
       IF image_paths = <<>>
         THEN season' = [NoSeason EXCEPT !.state = "returned", !.folder = folder,
                                         !.batch_size = batch_size]
       ELSE IF batch_size > 0
         THEN season' = [NoSeason EXCEPT !.state = "running", !.folder = folder,
                                         !.image_paths = image_paths,
                                         !.batch_size = batch_size]
       ELSE \E outcomes \in [DOMAIN image_paths -> Outcomes] :
            \E season_results \in {extract_scores_from_multiple_images(image_paths, outcomes)} :
              season' = [NoSeason EXCEPT !.state = "returned", !.folder = folder,
                                         !.image_paths = image_paths,
                                         !.batch_size = batch_size,
                                         !.season_results = season_results,
                                         !.extracted = <<image_paths>>,
                                         !.saved = <<season_results>>,
                                         !.calls = <<"extract", "save">>,
                                         !.returned = <<season_results>>]
  /\ UNCHANGED <<player_resolution_cache, ingestion, log>>
  /\ UNCHANGED stats_vars
  /\ UNCHANGED registry_vars

(* One turn of the loop of process_season_folder: the batch is extracted,  *)
(* the results so far are saved, and the loop waits where another batch    *)
(* follows; after the last turn the call returns.                          *)
ProcessBatch ==
  /\ season.state = "running"
  /\ \E batch \in {Slice(season.image_paths, season.i, season.i + season.batch_size)} :
     \E outcomes \in [DOMAIN batch -> Outcomes] :
     \E season_results \in {DictUpdate(season.season_results,
                                       extract_scores_from_multiple_images(batch, outcomes))} :
     \E waits \in {WaitsAfterBatch(season.i, season.batch_size, season.image_paths)} :
     \E last \in {season.i + season.batch_size >= Len(season.image_paths)} :
       season' = [season EXCEPT
                    !.season_results = season_results,
                    !.extracted = Append(@, batch),
                    !.saved = Append(@, season_results),
                    !.sleeps = IF waits THEN @ + 1 ELSE @,
                    !.calls = @ \o <<"extract", "save">>
                                \o (IF waits THEN <<"sleep">> ELSE <<>>),
                    !.i = @ + season.batch_size,
                    !.state = IF last THEN "returned" ELSE "running",
                    !.returned = IF last THEN <<season_results>> ELSE <<>>]
  /\ UNCHANGED <<player_resolution_cache, ingestion, log>>
  /\ UNCHANGED stats_vars
  /\ UNCHANGED registry_vars

(* The specification of the calls of process_season_folder. *)
SeasonNext ==
  \/ ProcessSeasonFolder
  \/ ProcessBatch

SeasonSpec == Init /\ [][SeasonNext]_vars

(***************************************************************************)
(* Properties.  out is the output of the last run of a generator on the    *)
(* database as it stands: out.history[pool] is the history of a pool and   *)
(* out.ladder[pool] its final ladder.  The pool of a team generator is     *)
(* "team"; the pools of the player generators are "general" and the roles. *)
(***************************************************************************)
(* The members of a history event, imperial side first. *)
EventMembers(e) == e.imperial \o e.rebel

Lists(e, id) == \E k \in DOMAIN EventMembers(e) : EventMembers(e)[k].id = id

(* The members of every event of a history, in the order of the updates. *)
RECURSIVE AllMembers(_)
AllMembers(h) == IF h = <<>> THEN <<>> ELSE EventMembers(Head(h)) \o AllMembers(Tail(h))

(* The sum of the rating_change values a history records for a subject. *)
RatingChangeSum(h, id) ==
  LET f == AllMembers(h)
  IN SumSeq([k \in DOMAIN f |-> IF f[k].id = id THEN f[k].rating_change ELSE 0])

(* The rating the events before the i-th event of h left for a subject:    *)
(* the new_rating of its last entry in the latest such event that lists    *)
(* it, the starting rating if none does.                                   *)
RatingLeftBefore(h, i, id) ==
  LET earlier == {j \in 1..(i - 1) : Lists(h[j], id)}
  IN IF earlier = {} THEN StartingRating
     ELSE LET j == CHOOSE x \in earlier : \A y \in earlier : y <= x
              mem == EventMembers(h[j])
              k == CHOOSE x \in DOMAIN mem :
                     mem[x].id = id /\ \A y \in DOMAIN mem : mem[y].id = id => y <= x
          IN mem[k].new_rating

PlayerGenerators == {"generate_player_elo_ladder", "generate_role_specific_elo"}
TeamGenerators == {"generate_elo_ladder", "generate_combined_ladder"}

(* C1.  Determinism of replay: on a fixed database and fixed starting_elo  *)
(* and k_factor, generate_elo_ladder, generate_player_elo_ladder and       *)
(* generate_role_specific_elo each have one possible result, so that two   *)
(* runs yield the same histories and the same ladders, entry for entry in  *)
(* the same order: the set of the results the generator can return on the  *)
(* database is the singleton of the result it returned.                    *)
C1_DeterministicReplay ==
  /\ out.gen = "generate_elo_ladder"
       => generate_elo_ladder(AllMatches, out.match_type) = {out}
  /\ out.gen = "generate_player_elo_ladder"
       => generate_player_elo_ladder(AllMatches, out.match_type) = {out}
  /\ out.gen = "generate_role_specific_elo"
       => generate_role_specific_elo(AllMatches, out.match_type) = {out}

(* A run of generate_role_specific_elo that rated two matches of the same  *)
(* date in the general pool and in the pool of a role.                     *)
C1_Witness ==
  /\ out.gen = "generate_role_specific_elo"
  /\ Len(out.history["general"]) = 2
  /\ out.history["general"][1].match_date = out.history["general"][2].match_date
  /\ Len(out.history["Flex"]) = 2

(* C2.  Processing order: in the history of every pool of every generator, *)
(* the combined ladder included, the events are in nondecreasing           *)
(* match_date and events of equal match_date in increasing match id, and   *)
(* every subject of an event starts the event from the rating the events   *)
(* before it left.                                                         *)
C2_ProcessingOrder ==
  \A pool \in DOMAIN out.history :
    LET h == out.history[pool]
    IN /\ \A i, j \in DOMAIN h :
            i < j => \/ h[i].match_date < h[j].match_date
                     \/ /\ h[i].match_date = h[j].match_date
                        /\ h[i].match_id < h[j].match_id
       /\ \A i \in DOMAIN h :
            \A k \in DOMAIN EventMembers(h[i]) :
              \E x \in DOMAIN EventMembers(h[i]) :
                /\ EventMembers(h[i])[x].id = EventMembers(h[i])[k].id
                /\ EventMembers(h[i])[x].old_rating
                     = RatingLeftBefore(h, i, EventMembers(h[i])[k].id)

(* C3.  The final table is the fold of the history: in every pool, the     *)
(* rating of every ladder entry is round(starting_elo + the sum of the     *)
(* rating_change values the history of the pool records for the subject).  *)
C3_LadderIsFoldOfHistory ==
  \A pool \in DOMAIN out.ladder :
    \A i \in DOMAIN out.ladder[pool] :
      out.ladder[pool][i].elo_rating
        = RoundMilli(StartingRating
                       + RatingChangeSum(out.history[pool], out.ladder[pool][i].id))

(* C4.  Counters are the fold of the history: for every entry of a player  *)
(* or role ladder, matches_played is the number of the events of the pool  *)
(* that list the subject, matches_won the number of those in which the     *)
(* subject is on the side of the winner and matches_lost the number of     *)
(* those in which it is on the other side.                                 *)
C4_CountersAreFoldOfHistory ==
  out.gen \in PlayerGenerators =>
    \A pool \in DOMAIN out.ladder :
      \A i \in DOMAIN out.ladder[pool] :
        LET e == out.ladder[pool][i]
            h == out.history[pool]
            On(ev, side) == \E k \in DOMAIN side : side[k].id = e.id
            Winners(ev) == IF ev.winner = "IMPERIAL" THEN ev.imperial ELSE ev.rebel
            Losers(ev) == IF ev.winner = "IMPERIAL" THEN ev.rebel ELSE ev.imperial
        IN /\ e.matches_played = Count({j \in DOMAIN h : Lists(h[j], e.id)})
           /\ e.matches_won = Count({j \in DOMAIN h : On(h[j], Winners(h[j]))})
           /\ e.matches_lost = Count({j \in DOMAIN h : On(h[j], Losers(h[j]))})

(* C5.  First-match result: when two different teams that are in no        *)
(* earlier event of a team pool meet, with starting_elo 1000 and k_factor  *)
(* 32, the event records old_rating 1000 for both, new_rating 1016 for the *)
(* winner and 984 for the loser, and the ladder shows 1016 and 984 for     *)
(* them if neither is in a later event.                                    *)
C5_FirstMatchResult ==
  out.gen \in TeamGenerators =>
    LET h == out.history["team"]
        ladder == out.ladder["team"]
        Shows(id, rating) ==
          \E a \in DOMAIN ladder : ladder[a].id = id /\ ladder[a].elo_rating = rating
    IN \A i \in DOMAIN h :
         LET imp == h[i].imperial[1]
             reb == h[i].rebel[1]
             won == IF h[i].winner = "IMPERIAL" THEN imp ELSE reb
             lost == IF h[i].winner = "IMPERIAL" THEN reb ELSE imp
             Apart(j) == ~Lists(h[j], imp.id) /\ ~Lists(h[j], reb.id)
         IN (imp.id # reb.id /\ \A j \in 1..(i - 1) : Apart(j)) =>
              /\ imp.old_rating = 1000 * Milli
              /\ reb.old_rating = 1000 * Milli
              /\ won.new_rating = 1016 * Milli
              /\ lost.new_rating = 984 * Milli
              /\ (\A j \in (i + 1)..Len(h) : Apart(j)) =>
                   Shows(won.id, 1016) /\ Shows(lost.id, 984)

(* generate_elo_ladder rated a match between two different teams and       *)
(* lists the winner at 1016 and the loser at 984.                          *)
C5_Witness ==
  /\ out.gen = "generate_elo_ladder"
  /\ \E i \in DOMAIN out.history["team"] :
       LET ev == out.history["team"][i]
       IN /\ ev.imperial[1].id # ev.rebel[1].id
          /\ ev.winner = "IMPERIAL"
          /\ ev.imperial[1].new_rating = 1016 * Milli
          /\ \E a, b \in DOMAIN out.ladder["team"] :
               /\ out.ladder["team"][a].id = ev.imperial[1].id
               /\ out.ladder["team"][a].elo_rating = 1016
               /\ out.ladder["team"][b].id = ev.rebel[1].id
               /\ out.ladder["team"][b].elo_rating = 984

(* The matches whose normalized outcome is not UNKNOWN. *)
KnownOutcome == {m \in AllMatches : matches[m].winner # "UNKNOWN"}

(* A result without the role its ladder entries display. *)
WithoutShownRole(o) ==
  [o EXCEPT !.ladder =
     [pool \in DOMAIN o.ladder |->
        [i \in DOMAIN o.ladder[pool] |-> [o.ladder[pool][i] EXCEPT !.role = NoRole]]]]

(* C6.  Unknown-outcome matches: a stored match whose winner is UNKNOWN    *)
(* has no event in the history of any pool, and in the result of every     *)
(* generator the histories, the ratings and the matches_played,            *)
(* matches_won and matches_lost of the ladder entries are those of the     *)
(* result it returns when its queries see only the matches whose outcome   *)
(* is known.                                                               *)
C6_UnknownOutcomeExcluded ==
  /\ \A pool \in DOMAIN out.history :
       \A i \in DOMAIN out.history[pool] :
         matches[out.history[pool][i].match_id].winner # "UNKNOWN"
  /\ out.gen = "generate_elo_ladder"
       => WithoutShownRole(out)
            \in {WithoutShownRole(o) : o \in generate_elo_ladder(KnownOutcome, out.match_type)}
  /\ out.gen = "generate_combined_ladder"
       => WithoutShownRole(out)
            \in {WithoutShownRole(o) : o \in generate_combined_ladder(KnownOutcome)}
  /\ out.gen = "generate_player_elo_ladder"
       => WithoutShownRole(out)
            \in {WithoutShownRole(o) :
                   o \in generate_player_elo_ladder(KnownOutcome, out.match_type)}
  /\ out.gen = "generate_role_specific_elo"
       => WithoutShownRole(out)
            \in {WithoutShownRole(o) :
                   o \in generate_role_specific_elo(KnownOutcome, out.match_type)}

(* The matches table holds a team match of unknown outcome between two     *)
(* teams, and generate_elo_ladder ran and rated another match of theirs.   *)
C6_Witness ==
  /\ out.gen = "generate_elo_ladder"
  /\ Len(out.history["team"]) = 1
  /\ \E m \in AllMatches :
       /\ matches[m].winner = "UNKNOWN"
       /\ matches[m].match_type = "team"
       /\ matches[m].imperial_team_id # matches[m].rebel_team_id
       /\ Lists(out.history["team"][1], matches[m].imperial_team_id)
       /\ Lists(out.history["team"][1], matches[m].rebel_team_id)

(* C7.  Missing roster: a decisive match for which one faction has no      *)
(* player_stats row has no event in the history of any pool of any         *)
(* generator, the team pools included.                                     *)
C7_MissingRosterExcluded ==
  \A pool \in DOMAIN out.history :
    \A i \in DOMAIN out.history[pool] :
      /\ FactionRows(out.history[pool][i].match_id, "IMPERIAL") # <<>>
      /\ FactionRows(out.history[pool][i].match_id, "REBEL") # <<>>

(* The ids of the members of one side of an event, in order. *)
MemberIds(side) == [k \in DOMAIN side |-> side[k].id]

(* The members of one side of an event that played a role, in order. *)
MembersOfRole(side, role) == SelectSeq(side, LAMBDA mem : mem.role = role)

(* C8.  Role pools update only for the role played.  In a run of           *)
(* generate_role_specific_elo, the event of the general pool for a rated   *)
(* match lists every participant; the history of the pool of a role R has  *)
(* an event for the match if and only if a participant played R, and that  *)
(* event lists exactly the participants whose role is R, each with a       *)
(* change of rating; every entry starts from the rating the entries of     *)
(* the subject before it left in the pool, and the final rating of every   *)
(* player in the pool is the starting rating plus the changes recorded,    *)
(* so that a match changes no rating of a pool whose role the player did   *)
(* not play.                                                               *)
C8_RolePoolsFollowRolePlayed ==
  out.gen = "generate_role_specific_elo" =>
    LET g == out.history["general"]
    IN /\ \A i \in DOMAIN g :
            /\ MemberIds(g[i].imperial)
                 = [k \in DOMAIN FactionRows(g[i].match_id, "IMPERIAL") |->
                      FactionRows(g[i].match_id, "IMPERIAL")[k].player_id]
            /\ MemberIds(g[i].rebel)
                 = [k \in DOMAIN FactionRows(g[i].match_id, "REBEL") |->
                      FactionRows(g[i].match_id, "REBEL")[k].player_id]
            /\ \A k \in DOMAIN EventMembers(g[i]) :
                 EventMembers(g[i])[k].rating_change # 0
       /\ \A R \in RolePools :
            LET h == out.history[R]
                f == AllMembers(h)
            IN /\ \A i \in DOMAIN g :
                    LET imp == MembersOfRole(g[i].imperial, R)
                        reb == MembersOfRole(g[i].rebel, R)
                        events == {j \in DOMAIN h : h[j].match_id = g[i].match_id}
                    IN IF imp = <<>> /\ reb = <<>> THEN events = {}
                       ELSE /\ Count(events) = 1
                            /\ \A j \in events :
                                 /\ MemberIds(h[j].imperial) = MemberIds(imp)
                                 /\ MemberIds(h[j].rebel) = MemberIds(reb)
               /\ \A j \in DOMAIN h : \E i \in DOMAIN g : g[i].match_id = h[j].match_id
               /\ \A k \in DOMAIN f :
                    /\ f[k].role = R
                    /\ f[k].rating_change # 0
                    /\ LET prev == {x \in 1..(k - 1) : f[x].id = f[k].id}
                       IN f[k].old_rating
                            = IF prev = {} THEN StartingRating
                              ELSE f[CHOOSE x \in prev : \A y \in prev : y <= x].new_rating
               /\ \A p \in DOMAIN players :
                    out.ratings[R][p] = StartingRating + RatingChangeSum(h, p)

(* A rated match in which one player played Flex and the other did not:    *)
(* the Flex pool records the first and leaves the second at the starting   *)
(* rating, which the general pool changed.                                 *)
C8_Witness ==
  /\ out.gen = "generate_role_specific_elo"
  /\ Len(out.history["Flex"]) = 1
  /\ \E p, q \in DOMAIN players :
       /\ p # q
       /\ Lists(out.history["Flex"][1], p)
       /\ ~Lists(out.history["Flex"][1], q)
       /\ Lists(out.history["general"][1], q)
       /\ out.ratings["Flex"][p] # StartingRating
       /\ out.ratings["Flex"][q] = StartingRating
       /\ out.ratings["general"][q] # StartingRating

(* The pairs of subject and rating_change of one side of an event. *)
MemberChanges(side) == [k \in DOMAIN side |-> <<side[k].id, side[k].rating_change>>]

C10_NoPlaceholderRows ==
  \A pool \in DOMAIN out.ladder :
    \A i \in DOMAIN out.ladder[pool] :
      \E j \in DOMAIN out.history[pool] :
        Lists(out.history[pool][j], out.ladder[pool][i].id)

(* C11.  Ladder order: every final ladder of every generator is sorted by  *)
(* rating descending, entries of equal rating are in ascending order of    *)
(* the subject id, and the rank of the i-th entry is i.                    *)
C11_LadderOrder ==
  \A pool \in DOMAIN out.ladder :
    LET l == out.ladder[pool]
    IN /\ \A i \in DOMAIN l : l[i].rank = i
       /\ \A i, j \in DOMAIN l :
            i < j => \/ l[i].elo_rating > l[j].elo_rating
                     \/ l[i].elo_rating = l[j].elo_rating /\ l[i].id < l[j].id

(* C12.  Win-rate bound: for every entry of every ladder of every          *)
(* generator, win_rate lies between 0 and 100 percent (it is kept in       *)
(* tenths of a percent) and matches_won + matches_lost is at most          *)
(* matches_played.                                                         *)
C12_WinRateBound ==
  \A pool \in DOMAIN out.ladder :
    \A i \in DOMAIN out.ladder[pool] :
      LET e == out.ladder[pool][i]
      IN /\ 0 <= e.win_rate
         /\ e.win_rate <= 100 * 10
         /\ e.matches_won + e.matches_lost <= e.matches_played

(* The actual outcome an entry of an event was updated with: a rating      *)
(* rises only with actual 1 and falls only with actual 0.                  *)
ActualOf(mem) == IF mem.rating_change > 0 THEN Milli ELSE 0

(* The expected outcome an entry of an event was updated with, from        *)
(* rating_change = k_factor * (actual - expected).                         *)
ExpectedOf(mem) == ActualOf(mem) - mem.rating_change \div k_factor

(* The ratings of the imperial and of the rebel side that the expectation  *)
(* of an event was computed from: the ratings of the two teams, or the     *)
(* recorded averages of the two rosters.                                   *)
SideRatings(pool, e) ==
  IF pool = "team" THEN <<e.imperial[1].old_rating, e.rebel[1].old_rating>>
  ELSE <<e.imperial_avg_elo, e.rebel_avg_elo>>

(* C13.  Conservation of expectation: for every event of every pool of     *)
(* every generator, every entry was updated with an expected outcome       *)
(* strictly between 0 and 1 that is the expectation of its side against    *)
(* the other side, and with actual outcome 1 if its faction is the winner  *)
(* and 0 otherwise; so for an imperial entry and a rebel entry of the      *)
(* event the expected outcomes sum to 1, the actual outcomes sum to 1 and  *)
(* exactly one of them is 1.                                               *)
C13_ConservationOfExpectation ==
  \A pool \in DOMAIN out.history :
    \A i \in DOMAIN out.history[pool] :
      LET e == out.history[pool][i]
          r == SideRatings(pool, e)
      IN /\ e.winner \in {"IMPERIAL", "REBEL"}
         /\ \A k \in DOMAIN EventMembers(e) :
              /\ EventMembers(e)[k].rating_change % k_factor = 0
              /\ ExpectedOf(EventMembers(e)[k]) > 0
              /\ ExpectedOf(EventMembers(e)[k]) < Milli
         /\ \A k \in DOMAIN e.imperial :
              /\ ExpectedOf(e.imperial[k]) = calculate_expected_outcome(r[1], r[2])
              /\ ActualOf(e.imperial[k]) = Milli <=> e.winner = "IMPERIAL"
         /\ \A k \in DOMAIN e.rebel :
              /\ ExpectedOf(e.rebel[k]) = calculate_expected_outcome(r[2], r[1])
              /\ ActualOf(e.rebel[k]) = Milli <=> e.winner = "REBEL"
         /\ \A a \in DOMAIN e.imperial, b \in DOMAIN e.rebel :
              /\ ExpectedOf(e.imperial[a]) + ExpectedOf(e.rebel[b]) = Milli
              /\ ActualOf(e.imperial[a]) + ActualOf(e.rebel[b]) = Milli
              /\ (ActualOf(e.imperial[a]) = Milli) # (ActualOf(e.rebel[b]) = Milli)

(* A team pool or the Flex pool rated a match between two sides of unequal *)
(* rating, and the side expected to lose won it.                           *)
C13_Witness ==
  /\ out.gen \in {"generate_elo_ladder", "generate_role_specific_elo"}
  /\ \E pool \in DOMAIN out.history :
       \E i \in DOMAIN out.history[pool] :
         LET e == out.history[pool][i]
         IN /\ pool \in {"team", "Flex"}
            /\ e.imperial # <<>> /\ e.rebel # <<>>
            /\ ExpectedOf(e.imperial[1]) > Milli \div 2
            /\ ExpectedOf(e.rebel[1]) < Milli \div 2
            /\ e.winner = "REBEL"

(***************************************************************************)
(* Properties of the reference database, under RegistrySpec.  ret is the   *)
(* last call of a method and ref_players, ref_teams the tables it left.    *)
(***************************************************************************)
(* The aliases of a row: the pieces of its alias column, stripped. *)
AliasesOf(row) ==
  {Strip(AliasPieces(row.alias)[i]) : i \in DOMAIN AliasPieces(row.alias)}

(* The names a row answers to, without their case: its primary name and    *)
(* its aliases.                                                            *)
Identities(row) == {UpperText(t) : t \in {row.name} \cup AliasesOf(row)}

(* C14.  No duplicate identities: after any sequence of add_player,        *)
(* add_player_alias, update_player, import_from_json and                   *)
(* resolve_duplicate_ids, no two rows of ref_players have, compared        *)
(* without case, a primary name or an alias in common, the primary name of *)
(* one being an alias of the other included.                               *)
C14_NoDuplicateIdentities ==
  \A p, q \in DOMAIN ref_players :
    p # q => Identities(ref_players[p]) \cap Identities(ref_players[q]) = {}

(* Whether a name is, without its case, the primary name or an alias of a  *)
(* row of the table.                                                       *)
Collides(table, name) ==
  \E p \in DOMAIN table : UpperText(name) \in Identities(table[p])

(* C15.  Duplicate creation is rejected: a call of add_player with a name  *)
(* that is, compared without case, the primary name or an alias of a row   *)
(* of ref_players fails (it raises an error or returns no id) and leaves   *)
(* ref_players as it was.                                                  *)
C15_DuplicateCreationRejected ==
  [][(ret'.op = "add_player" /\ Collides(ref_players, ret'.args[1]))
       => /\ ret'.raised # "none" \/ ret'.result = 0
          /\ ref_players' = ref_players]_vars

(* C16.  Idempotent alias add: when add_player_alias(id, a), for a row id  *)
(* of ref_players and an alias a that is not empty, is called twice in a   *)
(* row, both calls return True and the second leaves ref_players as the    *)
(* first left it.                                                          *)
C16_IdempotentAliasAdd ==
  [][(/\ ret.op = "add_player_alias"
      /\ ret'.op = "add_player_alias"
      /\ ret'.args = ret.args
      /\ ret.args[1] \in DOMAIN ref_players
      /\ Strip(ret.args[2]) # <<>>)
       => /\ ret.result = TRUE
          /\ ret'.result = TRUE
          /\ ref_players' = ref_players]_vars

(* C17.  Alias add on an unknown id: a call of add_player_alias with an id *)
(* that no row of ref_players has returns False and leaves ref_players as  *)
(* it was.                                                                 *)
C17_AliasAddUnknownId ==
  [][(ret'.op = "add_player_alias" /\ ret'.args[1] \notin DOMAIN ref_players)
       => /\ ret'.result = FALSE
          /\ ret'.raised = "none"
          /\ ref_players' = ref_players]_vars

(* add_player_alias was called with an alias that is not empty and an id   *)
(* that ref_players, which has a row, does not have.                       *)
C17_Witness ==
  /\ ret.op = "add_player_alias"
  /\ ret.args[1] \notin DOMAIN ref_players
  /\ Strip(ret.args[2]) # <<>>
  /\ ret.result = FALSE
  /\ DOMAIN ref_players # {}

(* The rows of a table that a raw name names: those whose primary name or  *)
(* one of whose aliases is the raw name, compared without case.            *)
NamedBy(table, name) == {i \in DOMAIN table : UpperText(name) \in Identities(table[i])}

(* C18.  Exact resolution is complete and case-insensitive: when the raw   *)
(* name is, compared without case, the primary name or an alias of a row,  *)
(* get_player, and get_team without fuzzy matching, return a row that the  *)
(* raw name names.                                                         *)
C18_ExactResolutionComplete ==
  /\ (ret.op = "get_player" /\ NamedBy(ref_players, ret.args[1]) # {})
       => ret.result \in NamedBy(ref_players, ret.args[1])
  /\ (ret.op = "get_team" /\ ~ret.args[2] /\ NamedBy(ref_teams, ret.args[1]) # {})
       => ret.result \in NamedBy(ref_teams, ret.args[1])

(* Whether the name or an alias of a row is similar to a raw name: its     *)
(* ratio reaches the threshold.                                            *)
SimilarTo(row, name, match_threshold) ==
  \E t \in {row.name} \cup {AliasPieces(row.alias)[i] : i \in DOMAIN AliasPieces(row.alias)} :
    Ratio(LowerText(name), LowerText(t)) >= match_threshold

(* C19.  Exact resolution matches whole tokens only: the row get_player    *)
(* returns is one that the raw name names; and the row get_team returns    *)
(* is one that the raw name names or, under fuzzy matching, one whose name *)
(* or alias is similar to the raw name.  A raw name that is only a part of *)
(* an alias, or that matches an alias only through "_" or "%", returns no  *)
(* row.                                                                    *)
C19_WholeTokensOnly ==
  /\ (ret.op = "get_player" /\ ret.result # 0)
       => ret.result \in NamedBy(ref_players, ret.args[1])
  /\ (ret.op = "get_team" /\ ret.result # 0)
       => \/ ret.result \in NamedBy(ref_teams, ret.args[1])
          \/ ret.args[2] /\ SimilarTo(ref_teams[ret.result], ret.args[1], ret.args[3])

(* The greatest score of a raw name against the primary name and the       *)
(* aliases of a row.                                                       *)
BestScoreOf(row, name) ==
  LET texts == {row.name} \cup {Strip(AliasPieces(row.alias)[i]) :
                                  i \in DOMAIN AliasPieces(row.alias)}
      scores == {Ratio(LowerText(name), LowerText(t)) : t \in texts}
  IN CHOOSE x \in scores : \A y \in scores : y <= x

(* The entries of a candidate list are exactly the players whose best      *)
(* score reaches the threshold, each once and with its best score.         *)
ListsCandidates(list, table, name, match_threshold) ==
  /\ \A i \in DOMAIN table :
       Count({k \in DOMAIN list : list[k].id = i})
         = IF BestScoreOf(table[i], name) >= match_threshold THEN 1 ELSE 0
  /\ \A k \in DOMAIN list :
       /\ list[k].id \in DOMAIN table
       /\ list[k].name = table[list[k].id].name
       /\ list[k].match_score = BestScoreOf(table[list[k].id], name)

(* A candidate list is ordered by score descending, equal scores by        *)
(* primary name.                                                           *)
OrderedCandidates(list) ==
  \A k \in DOMAIN list : \A l \in DOMAIN list :
    k < l => \/ list[k].match_score > list[l].match_score
             \/ /\ list[k].match_score = list[l].match_score
                /\ ~Before(list[l].name, list[k].name)

(* C20.  Candidate list: find_fuzzy_player_matches(name, threshold)        *)
(* returns each player whose primary name or some alias scores at least    *)
(* the threshold exactly once, with its best score, and no player that     *)
(* scores below the threshold; the list is ordered by score descending and *)
(* entries of equal score are ordered by primary name lexically.           *)
C20_CandidateList ==
  ret.op = "find_fuzzy_player_matches"
    => /\ ListsCandidates(ret.result, ref_players, ret.args[1], ret.args[2])
       /\ OrderedCandidates(ret.result)

(* C21.  Merge: when resolve_duplicate_ids removes the row of a duplicate  *)
(* of correct_id, the row of correct_id survives and answers, as its       *)
(* primary name or as an alias, to the primary name and to every alias of  *)
(* the duplicate, so that every name that resolved to the duplicate        *)
(* resolves to the surviving player.                                       *)
C21_MergeKeepsNames ==
  [][ret'.op = "resolve_duplicate_ids"
       => \A d \in DOMAIN ref_players \ DOMAIN ref_players' :
            d # ret'.args[1]
              => /\ ret'.args[1] \in DOMAIN ref_players'
                 /\ Identities(ref_players[d])
                      \subseteq Identities(ref_players'[ret'.args[1]])]_vars

(***************************************************************************)
(* Ingestion with a reference database (IngestSpec).  log is what the last *)
(* process_match_data did: the teams it bound and, for each player of the  *)
(* match, what process_player_stats and get_or_create_player did.          *)
(***************************************************************************)
(* A player of the last match named exactly (by get_player) the reference  *)
(* player it was resolved to.                                              *)
ExactlyNamed(p) == get_player(ref_players, p.player_name) = p.ref_id

(* The players of the last match were bound to a reference player either   *)
(* by an exact match or by an answer typed at the prompt.                   *)
PlayersBoundByExactOrAnswer ==
  \A i \in DOMAIN log.players :
    LET p == log.players[i]
    IN (~p.cached /\ p.ref_id # 0)
         => \/ ~p.prompted /\ ExactlyNamed(p)
            \/ p.prompted /\ p.choice \in {"select", "alias", "alias_to", "create"}

(* The teams of the last match were bound to a reference team only by an   *)
(* exact match of the name.                                                *)
TeamsBoundByExact ==
  \A i \in DOMAIN log.teams :
    log.teams[i].ref_id # 0
      => get_team(ref_teams, log.teams[i].typed, FALSE, DefaultThreshold)
           = log.teams[i].ref_id

(* C22.  Fuzzy similarity never decides alone: during ingestion a raw name *)
(* of a player or of a team that has no exact match is bound to an         *)
(* existing reference entity only when the prompt was shown and an answer  *)
(* selected that entity; no similarity score binds a name by itself.       *)
C22_FuzzyNeverDecidesAlone == PlayersBoundByExactOrAnswer /\ TeamsBoundByExact

(* C23.  Resolution cache: within one run, an occurrence of a raw name the *)
(* cache of the run already holds (from an earlier match, or from an       *)
(* earlier player of this match) returns the cached player, entity or      *)
(* skip, without consulting the reference database and without a prompt,   *)
(* and leaves the cached result as it was.                                 *)
C23_CachedNameNotResolvedAgain ==
  [][\A i \in DOMAIN log'.players :
       LET p == log'.players[i]
           before == player_resolution_cache[ingestion.entry]
           after == player_resolution_cache'[ingestion.entry]
       IN /\ p.player_name \in DOMAIN before
               => /\ p.cached /\ ~p.consulted /\ ~p.prompted
                  /\ p.player_id = before[p.player_name].player_id
                  /\ after[p.player_name] = before[p.player_name]
          /\ \A j \in 1..(i - 1) :
               (log'.players[j].player_name = p.player_name /\ log'.players[j].returned)
                 => /\ p.cached /\ ~p.consulted /\ ~p.prompted
                    /\ p.player_id = log'.players[j].player_id]_vars

(* A name without an exact match in the reference database was returned    *)
(* from the cache: resolved before in the run by an answer or skipped.     *)
C23_Witness ==
  \E i \in DOMAIN log.players :
    /\ log.players[i].cached
    /\ get_player(ref_players, log.players[i].player_name) = 0

(* The players of the last match that were skipped: by the answer S, or    *)
(* from the cache of the run.                                              *)
SkippedIn(l) == {i \in DOMAIN l.players : l.players[i].player_id = 0}

AnsweredSkip(p) == p.prompted /\ p.choice = "skip"

(* C24.  Skip: when the answer for a raw name is S, the name is cached as  *)
(* skipped (no player id), no stat row is written for it in this match,    *)
(* nor for a later occurrence the cache answers, no row of ref_players or  *)
(* of players is created under that name, and the ingestion goes on: the   *)
(* other players of the match are processed and the match is recorded.     *)
C24_SkipDropsTheName ==
  [][\A i \in DOMAIN log'.players :
       LET p == log'.players[i]
           data == ingestion'.done[Len(ingestion'.done)].data
       IN /\ AnsweredSkip(p)
               => /\ p.player_id = 0
                  /\ player_resolution_cache'[ingestion.entry][p.player_name].player_id = 0
                  /\ \A k \in DOMAIN ref_players' \ DOMAIN ref_players :
                       ref_players'[k].name # p.player_name
                  /\ \A k \in DOMAIN players' \ DOMAIN players :
                       players'[k].name # p.player_name
                  /\ Len(matches') = Len(matches) + 1
                  /\ Len(log'.players)
                       = Len(data.imperial_players) + Len(data.rebel_players)
          /\ p.player_id = 0 => ~p.written
          /\ Len(player_stats')
               = Len(player_stats) + Len(log'.players) - Cardinality(SkippedIn(log'))
          /\ \A k \in DOMAIN player_stats' \ DOMAIN player_stats :
               player_stats'[k].player_id # 0]_vars

(* S was answered for the imperial player of a match and the rebel player  *)
(* after it got a stat row.                                                *)
C24_Witness ==
  /\ Len(log.players) = 2
  /\ AnsweredSkip(log.players[1])
  /\ log.players[2].written

(* The raw names of the players of matches read (the done of a run). *)
NamesRead(done) ==
  UNION {{done[k].data.imperial_players[i] : i \in DOMAIN done[k].data.imperial_players}
           \cup {done[k].data.rebel_players[i] : i \in DOMAIN done[k].data.rebel_players}
         : k \in DOMAIN done}

(* C25.  Fresh cache per run: process_seasons_data starts with an empty    *)
(* resolution cache, so within a run a name is returned from the cache     *)
(* only if this run has read it before, in an earlier match or earlier in  *)
(* the same match; a decision of an earlier run, a skip included, is never *)
(* returned.                                                               *)
C25_FreshCachePerRun ==
  [][/\ ingestion'.runs # ingestion.runs
          => player_resolution_cache'[ingestion'.entry] = EmptyCache
     /\ \A i \in DOMAIN log'.players :
          log'.players[i].cached
            => log'.players[i].player_name
                 \in NamesRead(ingestion.done)
                       \cup {log'.players[j].player_name : j \in 1..(i - 1)}]_vars

(* In a second run of the same entry point, a name the first run resolved  *)
(* at the prompt (or skipped) is looked up and prompted for again.         *)
C25_Witness ==
  /\ ingestion.runs = 2
  /\ \A e \in EntryPoints \ {ingestion.entry} : player_resolution_cache[e] = EmptyCache
  /\ \E i \in DOMAIN log.players :
       /\ log.players[i].prompted
       /\ log.players[i].player_name \in NamesRead(ingestion.first)
       /\ Len(ingestion.done) = 1

(* The raw names for which, in the matches read, the prompt ended with the *)
(* answer A and a number (select the candidate and add the name as its     *)
(* alias).                                                                 *)
AliasAnswered(done) ==
  UNION {{done[k].data.imperial_players[i] :
            i \in {j \in DOMAIN done[k].imperial :
                     /\ done[k].imperial[j].choices # <<>>
                     /\ done[k].imperial[j].choices[Len(done[k].imperial[j].choices)].kind
                          = "alias"}}
         : k \in DOMAIN done}

(* C26.  Alias decisions are durable: a raw name for which a run answered  *)
(* select-and-add-alias is resolved in the next run (empty cache, the      *)
(* reference database the first run left) by the exact lookup, with no     *)
(* prompt, whatever the raw name, surrounding spaces included.             *)
C26_AliasDecisionDurable ==
  [][\A i \in DOMAIN log'.players :
       log'.players[i].player_name \in AliasAnswered(ingestion.first)
         => ~log'.players[i].prompted]_vars

(* C27.  Pickup and ranked matches have no team of record: every stat row  *)
(* ingestion wrote, through either entry point, for a match of type pickup *)
(* or ranked has a null team_id and is_subbing 0, and the players of such  *)
(* a match were not asked to confirm a substitute.                         *)
C27_NoTeamOfRecordOutsideTeamMatches ==
  /\ \A k \in DOMAIN player_stats :
       matches[player_stats[k].match_id].match_type \in {"pickup", "ranked"}
         => player_stats[k].team_id = 0 /\ player_stats[k].is_subbing = 0
  /\ (log.match_id # 0 /\ matches[log.match_id].match_type \in {"pickup", "ranked"})
       => \A i \in DOMAIN log.players : ~log.players[i].prompt_user

(* The answers typed for the players of the last match, in the order of    *)
(* log.players, and the stat row of the i-th of these players (the rows of *)
(* the match are the last of the table, one for each player written).      *)
LastAnswers ==
  ingestion.done[Len(ingestion.done)].imperial \o ingestion.done[Len(ingestion.done)].rebel

StatRowOf(i) ==
  player_stats[Len(player_stats)
                 - Cardinality({j \in DOMAIN log.players :
                                  j > i /\ log.players[j].written})]

(* The reference player a stat row was resolved to. *)
EntityOf(row) == ref_players[players[row.player_id].reference_id]

(* C28.  Substitute flag for team matches: for every stat row of a team    *)
(* match the suggestion is 1 exactly when the primary team name of the     *)
(* resolved player (none, for a player without a primary team) differs     *)
(* from the name of the team of record, and the stored is_subbing is the   *)
(* suggestion unless the answer to the confirmation rejects it, and then   *)
(* the opposite value.                                                     *)
C28_SubstituteFlag ==
  (log.match_id # 0 /\ matches[log.match_id].match_type = "team")
    => \A i \in DOMAIN log.players :
         log.players[i].written
           => /\ log.players[i].suggested_subbing
                   = (IF PrimaryTeamName(ref_teams, EntityOf(StatRowOf(i)))
                           # teams[StatRowOf(i).team_id].name
                        THEN 1 ELSE 0)
              /\ StatRowOf(i).is_subbing
                   = (IF Rejects(LastAnswers[i].user_response)
                        THEN 1 - log.players[i].suggested_subbing
                      ELSE log.players[i].suggested_subbing)

(* The victory phrases of the two factions (the match_result texts of the  *)
(* test of process_seasons_data).                                          *)
ImperialVictoryPhrases ==
  {<<"I", "M", "P", "E", "R", "I", "A", "L", " ", "V", "I", "C", "T", "O", "R", "Y">>,
   <<"E", "M", "P", "I", "R", "E", " ", "V", "I", "C", "T", "O", "R", "Y">>}

RebelVictoryPhrases ==
  {<<"R", "E", "B", "E", "L", " ", "V", "I", "C", "T", "O", "R", "Y">>,
   <<"N", "E", "W", " ", "R", "E", "P", "U", "B", "L", "I", "C", " ", "V", "I", "C", "T", "O", "R", "Y">>}

NamesVictoryOf(match_result, phrases) ==
  \E phrase \in phrases : In(phrase, UpperText(match_result))

(* C29.  Outcome normalization: the winner stored for a match is IMPERIAL  *)
(* when its match_result contains, ignoring case, an imperial victory      *)
(* phrase (and no rebel one), REBEL when it contains a rebel or New        *)
(* Republic victory phrase (and no imperial one), and UNKNOWN when it      *)
(* contains neither; so a text that names the rebel side as the winner is  *)
(* never stored as IMPERIAL.                                               *)
C29_OutcomeNormalization ==
  log.match_id # 0 =>
    LET match_result == ingestion.done[Len(ingestion.done)].data.match_result
        winner == matches[log.match_id].winner
        imperial == NamesVictoryOf(match_result, ImperialVictoryPhrases)
        rebel == NamesVictoryOf(match_result, RebelVictoryPhrases)
    IN /\ (rebel /\ ~imperial) => winner = "REBEL"
       /\ (imperial /\ ~rebel) => winner = "IMPERIAL"
       /\ (~imperial /\ ~rebel) => winner = "UNKNOWN"

(* The second run of process_seasons_data has ended, and it read the       *)
(* matches the first run read, with the same names and answers typed.      *)
RunAgain ==
  /\ ingestion.runs = 2
  /\ ingestion.left = 0
  /\ ingestion.done # <<>>
  /\ ingestion.done = ingestion.first

(* C30.  Re-running ingestion is idempotent: after a second run of         *)
(* process_seasons_data on the same input, the same database and the same  *)
(* resolution decisions, the match records, the stat rows and the win and  *)
(* loss counters of the teams are those the first run left, and each       *)
(* record of the input has exactly one match.                              *)
C30_RerunIsIdempotent ==
  RunAgain =>
    /\ matches = ingestion.before.matches
    /\ player_stats = ingestion.before.player_stats
    /\ teams = ingestion.before.teams
    /\ \A k \in DOMAIN ingestion.done :
         Cardinality({i \in DOMAIN matches :
                        matches[i].filename = ingestion.done[k].data.filename}) = 1

(* The sum of the ratings the first k events of a team history leave. *)
TeamRatingSum(h, k) ==
  LET ids == TeamRows
  IN SumSeq([i \in DOMAIN ids |-> RatingLeftBefore(h, k + 1, ids[i])])

(* C38.  Team-pool ratings are zero-sum: in the output of                  *)
(* generate_elo_ladder and generate_combined_ladder, after every rated     *)
(* match the sum of the ratings of all teams is the number of teams times  *)
(* starting_elo, a match whose imperial and rebel team are the same team   *)
(* included; and so is the sum of the final ratings.                       *)
C38_TeamRatingsZeroSum ==
  out.gen \in TeamGenerators =>
    /\ \A k \in 1..Len(out.history["team"]) :
         TeamRatingSum(out.history["team"], k) = Len(TeamRows) * StartingRating
    /\ LET ids == TeamRows
       IN SumSeq([i \in DOMAIN ids |-> out.ratings["team"][ids[i]]])
            = Len(TeamRows) * StartingRating

(* The event of the general pool for a match. *)
GeneralEventOf(match_id) ==
  CHOOSE j \in DOMAIN out.history["general"] :
    out.history["general"][j].match_id = match_id

(* The average of the general ratings the members of a side held before    *)
(* the j-th event of the general pool.                                     *)
HeldAverage(j, side) ==
  SumSeq([k \in DOMAIN side |->
            RatingLeftBefore(out.history["general"], j, side[k].id)]) \div Len(side)

AddsMatchOfOtherType(match_type) ==
  /\ Len(matches') = Len(matches) + 1
  /\ matches'[Len(matches')].match_type # match_type

(* The history and the final ladder of each result of a set of results. *)
HistoryAndLadder(results) ==
  {[history |-> o.history, ladder |-> o.ladder] : o \in results}

(* C36.  Pools are independent across match types: when a match of another *)
(* type is added to the database, the history and the final ladder (its    *)
(* members, their ratings and their counters) that generate_elo_ladder     *)
(* can return for the type team, and those generate_player_elo_ladder can  *)
(* return for the type pickup, are what they were before.                  *)
C36_PoolsIndependentAcrossTypes ==
  [][/\ AddsMatchOfOtherType("team") =>
          HistoryAndLadder(generate_elo_ladder(AllMatches, "team")')
            = HistoryAndLadder(generate_elo_ladder(AllMatches, "team"))
     /\ AddsMatchOfOtherType("pickup") =>
          HistoryAndLadder(generate_player_elo_ladder(AllMatches, "pickup")')
            = HistoryAndLadder(generate_player_elo_ladder(AllMatches, "pickup"))]_vars

(* C37.  Player without a primary team: in a team match, a resolved player *)
(* that has no primary team in the reference database is stored with       *)
(* is_subbing 0, and no substitute confirmation is requested for it.       *)
C37_NoPrimaryTeamNoSubstitute ==
  (log.match_id # 0 /\ matches[log.match_id].match_type = "team")
    => \A i \in DOMAIN log.players :
         (/\ log.players[i].written
          /\ PrimaryTeamId(EntityOf(StatRowOf(i))) = 0)
           => /\ StatRowOf(i).is_subbing = 0
              /\ ~log.players[i].prompt_user

(* The matches of the table a team won and lost: the decisive matches in   *)
(* which it is the team of the winning, or of the losing, faction.         *)
MatchesWonBy(t) ==
  {m \in DOMAIN matches :
     \/ matches[m].winner = "IMPERIAL" /\ matches[m].imperial_team_id = t
     \/ matches[m].winner = "REBEL" /\ matches[m].rebel_team_id = t}

MatchesLostBy(t) ==
  {m \in DOMAIN matches :
     \/ matches[m].winner = "IMPERIAL" /\ matches[m].rebel_team_id = t
     \/ matches[m].winner = "REBEL" /\ matches[m].imperial_team_id = t}

(* C32.  Team win/loss counters: after the ingestion of any sequence of    *)
(* matches into a fresh database, the wins of each team are the number of  *)
(* the decisive matches it won and its losses the number of those it lost; *)
(* a match of unknown outcome changes no counter, so the total of the      *)
(* wins, the total of the losses and the number of the decisive matches    *)
(* are equal.                                                              *)
C32_TeamCounters ==
  /\ \A t \in DOMAIN teams :
       /\ teams[t].wins = Cardinality(MatchesWonBy(t))
       /\ teams[t].losses = Cardinality(MatchesLostBy(t))
  /\ SumSeq([t \in DOMAIN teams |-> teams[t].wins])
       = Cardinality({m \in DOMAIN matches : IsDecisive(m)})
  /\ SumSeq([t \in DOMAIN teams |-> teams[t].losses])
       = Cardinality({m \in DOMAIN matches : IsDecisive(m)})

(* Two matches between two teams were ingested, one of unknown outcome and *)
(* one that the rebel team won.                                            *)
C32_Witness ==
  /\ Len(matches) = 2
  /\ \E m, n \in DOMAIN matches :
       /\ matches[m].winner = "UNKNOWN"
       /\ matches[n].winner = "REBEL"
       /\ matches[n].imperial_team_id # matches[n].rebel_team_id
       /\ matches[m].imperial_team_id = matches[n].rebel_team_id

(* C39.  Merge keeps the survivor: resolve_duplicate_ids never deletes the *)
(* row of the id given first, also when that id is repeated among the      *)
(* duplicates; and when the id given first is unknown, no listed duplicate *)
(* is found, or the deletion is declined after a failed cleaning step, no  *)
(* row is deleted.                                                         *)
C39_MergeKeepsSurvivor ==
  [][ret'.op = "resolve_duplicate_ids"
       => /\ ret'.args[1] \in DOMAIN ref_players
               => /\ ret'.args[1] \in DOMAIN ref_players'
                  /\ ref_players'[ret'.args[1]] = ref_players[ret'.args[1]]
          /\ (\/ ret'.args[1] \notin DOMAIN ref_players
              \/ ret'.args[2] \notin DOMAIN ref_players
              \/ ~ret'.args[3])
               => ref_players' = ref_players]_vars


(* C31.  Degraded records do not abort a run: once a call of               *)
(* process_seasons_data is over, either no storage failure happened, the   *)
(* call returned True and every match record of the file was ingested, or  *)
(* the storage failed and the failure reached the caller as the original   *)
(* error.                                                                  *)
RunOver == ingestion.runs > 0 /\ ingestion.left = 0

C31_DegradedRecordsDoNotAbort ==
  RunOver =>
    IF ingestion.raised = "OperationalError"
      THEN ingestion.returned = "raised OperationalError"
      ELSE /\ ingestion.returned = "True"
           /\ Len(ingestion.done) = ingestion.size
           /\ Len(matches) = Len(ingestion.before.matches) + ingestion.size


(* C33.  Timestamp from filename: for a filename that contains a date      *)
(* YYYY.MM.DD (or YYYY-MM-DD) followed by a time HH.MM.SS,                 *)
(* extract_date_from_filename returns that date with that time; with a     *)
(* date and no time it returns the date at 12:00:00; with no               *)
(* separator-delimited date it returns None.  (A date or a time is a token *)
(* of the filename: no digit stands next to it.  The year reads 20YY.)     *)
Shaped(text, i, shape) ==
  /\ i + Len(shape) - 1 <= Len(text)
  /\ \A k \in DOMAIN shape :
       IF shape[k] = "d" THEN text[i + k - 1] \in Digits ELSE text[i + k - 1] = shape[k]
  /\ i > 1 => text[i - 1] \notin Digits
  /\ i + Len(shape) <= Len(text) => text[i + Len(shape)] \notin Digits

DateAt(text, i) ==
  \/ Shaped(text, i, <<"2", "0", "d", "d", ".", "d", "d", ".", "d", "d">>)
  \/ Shaped(text, i, <<"2", "0", "d", "d", "-", "d", "d", "-", "d", "d">>)

(* A time starts a run of numbers: no number and dot stand before it. *)
TimeAt(text, j) ==
  /\ Shaped(text, j, <<"d", "d", ".", "d", "d", ".", "d", "d">>)
  /\ ~(j > 2 /\ text[j - 1] = "." /\ text[j - 2] \in Digits)

(* A date d, d or dd, dddd of digits with separators between them. *)
AnyDateAt(text, i) ==
  \E s1 \in {".", "-"}, s2 \in {".", "-"} :
    \/ Shaped(text, i, <<"d", "d", "d", "d", s1, "d", "d", s2, "d", "d">>)
    \/ Shaped(text, i, <<"d", "d", s1, "d", "d", s2, "d", "d", "d", "d">>)

DateOf(text, i) ==
  SubSeq(text, i, i + 3) \o <<"-">> \o SubSeq(text, i + 5, i + 6) \o <<"-">>
    \o SubSeq(text, i + 8, i + 9)

TimeOf(text, j) ==
  SubSeq(text, j, j + 1) \o <<":">> \o SubSeq(text, j + 3, j + 4) \o <<":">>
    \o SubSeq(text, j + 6, j + 7)

DateThenTime(ret_) ==
  LET filename == ret_.args[1]
  IN \A i \in DOMAIN filename : \A j \in DOMAIN filename :
       (DateAt(filename, i) /\ j >= i + 10 /\ TimeAt(filename, j))
         => ret_.result = DateOf(filename, i) \o <<" ">> \o TimeOf(filename, j)

DateAtNoon(ret_) ==
  LET filename == ret_.args[1]
  IN \A i \in DOMAIN filename :
       (DateAt(filename, i) /\ \A j \in DOMAIN filename : ~TimeAt(filename, j))
         => ret_.result = DateOf(filename, i) \o <<" ", "1", "2", ":", "0", "0", ":", "0", "0">>

NoDateNone(ret_) ==
  LET filename == ret_.args[1]
  IN (\A i \in DOMAIN filename : ~AnyDateAt(filename, i)) => ret_.result = NULL

C33_TimestampFromFilename ==
  ret.op = "extract_date_from_filename" =>
    /\ DateThenTime(ret)
    /\ DateAtNoon(ret)
    /\ NoDateNone(ret)


(* C34.  Batched season processing: for n images and batch size b > 0,     *)
(* process_season_folder passes every image to extraction exactly once in  *)
(* ceil(n/b) batches, saves the accumulated results after every batch, and *)
(* waits between two consecutive batches only (ceil(n/b) - 1 waits, none   *)
(* after the last batch); the returned result contains one entry per       *)
(* image.                                                                  *)
ImagesOf(folder) == {file \in DOMAIN folder : folder[file] \in {".png", ".JPG"}}

CeilDiv(n, b) == CHOOSE k \in 0..n : k * b >= n /\ (k > 0 => (k - 1) * b < n)

TimesExtracted(image) ==
  Cardinality({<<k, h>> \in (DOMAIN season.extracted) \X (1..MaxFolder) :
                 /\ h \in DOMAIN season.extracted[k]
                 /\ season.extracted[k][h] = image})

ExtractedUpTo(k) ==
  {season.extracted[j][h] : <<j, h>> \in
     {<<j, h>> \in (1..k) \X (1..MaxFolder) : h \in DOMAIN season.extracted[j]}}

EntriesReturned ==
  IF season.returned = <<>> THEN {} ELSE DOMAIN season.returned[1]

C34_BatchedSeasonProcessing ==
  (season.state \in {"running", "returned"} /\ season.batch_size > 0) =>
    LET n == Cardinality(ImagesOf(season.folder))
        batches == CeilDiv(n, season.batch_size)
    IN /\ \A k \in DOMAIN season.extracted :
            /\ k \in DOMAIN season.saved
            /\ DOMAIN season.saved[k] = ExtractedUpTo(k)
            /\ Len(season.extracted[k]) <= season.batch_size
       /\ Len(season.saved) = Len(season.extracted)
       /\ \A p \in DOMAIN season.calls :
            season.calls[p] = "sleep" =>
              /\ season.calls[p - 1] = "save"
              /\ season.state = "returned" =>
                   (p < Len(season.calls) /\ season.calls[p + 1] = "extract")
       /\ \A image \in ImagesOf(season.folder) : TimesExtracted(image) <= 1
       /\ season.state = "returned" =>
            /\ \A image \in ImagesOf(season.folder) : TimesExtracted(image) = 1
            /\ Len(season.extracted) = batches
            /\ Len(season.saved) = batches
            /\ season.sleeps = (IF batches = 0 THEN 0 ELSE batches - 1)
            /\ Cardinality({p \in DOMAIN season.calls : season.calls[p] = "sleep"})
                 = season.sleeps
            /\ EntriesReturned = ImagesOf(season.folder)

C34_Witness ==
  /\ season.state = "returned"
  /\ season.batch_size = 3
  /\ Len(season.image_paths) = 4
  /\ Len(season.folder) = 4
  /\ Len(season.extracted) = 2
  /\ season.sleeps = 1
  /\ \E image \in EntriesReturned : season.returned[1][image] = "error"


(* C40.  Stable link between stats player and registry identity: after    *)
(* any sequence of registry mutations and resolutions, no two rows of the  *)
(* stats players table carry the same reference id, and a players row that *)
(* is linked to one reference id is never re-linked to a different         *)
(* reference id.                                                           *)
Linked(ps, i) == ps[i].reference_id # 0

NoSharedReference(ps) ==
  \A i \in DOMAIN ps : \A j \in DOMAIN ps :
    (Linked(ps, i) /\ ps[i].reference_id = ps[j].reference_id) => i = j

C40_StableLink ==
  [][/\ NoSharedReference(players')
     /\ \A i \in DOMAIN players :
          Linked(players, i) =>
            /\ i \in DOMAIN players'
            /\ players'[i].reference_id = players[i].reference_id]_vars
====
